---------------------------- MODULE Spec2Model ----------------------------
(***************************************************************************)
(* UStartKit: the tiered product selection of the amazon-search edge       *)
(* function (src/unnamed/part_001) and the grouped kit assembly of the     *)
(* client (src/src/services/api.ts).                                       *)
(*                                                                         *)
(* Texts (titles, prices, ratings, urls) are strings; the string functions *)
(* of the source (toLowerCase, includes, the price regex, parseFloat,      *)
(* parseInt, split) are computed character by character.  Numbers are      *)
(* fixed-point integers with five fractional digits: 4.5 is 450000.        *)
(***************************************************************************)
EXTENDS Integers, Sequences, FiniteSets, TLC

(***************************************************************************)
(* Numbers                                                                 *)
(***************************************************************************)

\* One unit: 1.0 as a fixed-point integer.
Scale == 10 * 10000

\* JavaScript's Infinity: greater than every finite number, equal to itself.
Infinity == 2147483647

\* JavaScript's NaN as returned by parseFloat / parseInt on text without a number.
NaN == 0 - 1

\* `v || 0` on a number: NaN and 0 are falsy.
OrZero(v) == IF v = NaN THEN 0 ELSE v

\* x * 1.2 <= ... is compared as 5p <= 6e; Infinity * 1.2 is Infinity.
LeTimes1_2(p, e) ==
  IF e = Infinity THEN TRUE
  ELSE IF p = Infinity THEN FALSE
  ELSE 5 * p <= 6 * e

(***************************************************************************)
(* Strings                                                                 *)
(***************************************************************************)

\* s.substring(a - 1, b): the characters a..b of s that exist.
Slice(s, a, b) ==
  LET lo == IF a < 1 THEN 1 ELSE a
      hi == IF b > Len(s) THEN Len(s) ELSE b
  IN  IF lo > hi THEN "" ELSE SubSeq(s, lo, hi)

\* s.charAt(i - 1)
Chr(s, i) == Slice(s, i, i)

Digits == {"0", "1", "2", "3", "4", "5", "6", "7", "8", "9"}

IsDigit(c) == c \in Digits

DigitVal(c) ==
  CASE c = "0" -> 0 [] c = "1" -> 1 [] c = "2" -> 2 [] c = "3" -> 3
    [] c = "4" -> 4 [] c = "5" -> 5 [] c = "6" -> 6 [] c = "7" -> 7
    [] c = "8" -> 8 [] c = "9" -> 9

UpperChars ==
  {"A", "B", "C", "D", "E", "F", "G", "H", "I", "J", "K", "L", "M",
   "N", "O", "P", "Q", "R", "S", "T", "U", "V", "W", "X", "Y", "Z"}

LowerChars ==
  {"a", "b", "c", "d", "e", "f", "g", "h", "i", "j", "k", "l", "m",
   "n", "o", "p", "q", "r", "s", "t", "u", "v", "w", "x", "y", "z"}

LowerOf ==
  [c \in UpperChars |->
     CASE c = "A" -> "a" [] c = "B" -> "b" [] c = "C" -> "c" [] c = "D" -> "d"
       [] c = "E" -> "e" [] c = "F" -> "f" [] c = "G" -> "g" [] c = "H" -> "h"
       [] c = "I" -> "i" [] c = "J" -> "j" [] c = "K" -> "k" [] c = "L" -> "l"
       [] c = "M" -> "m" [] c = "N" -> "n" [] c = "O" -> "o" [] c = "P" -> "p"
       [] c = "Q" -> "q" [] c = "R" -> "r" [] c = "S" -> "s" [] c = "T" -> "t"
       [] c = "U" -> "u" [] c = "V" -> "v" [] c = "W" -> "w" [] c = "X" -> "x"
       [] c = "Y" -> "y" [] c = "Z" -> "z"]

RECURSIVE toLowerCase(_)
toLowerCase(s) ==
  IF s = "" THEN ""
  ELSE LET c == Chr(s, 1)
       IN  (IF c \in UpperChars THEN LowerOf[c] ELSE c) \o toLowerCase(Tail(s))

\* String.prototype.toUpperCase is needed only to test `w === w.toUpperCase()`:
\* true exactly when w holds no lower-case letter.
IsOwnUpperCase(w) == \A i \in 1..Len(w) : Chr(w, i) \notin LowerChars

\* String.prototype.includes
includes(s, k) ==
  \E i \in 1..(Len(s) - Len(k) + 1) : Slice(s, i, i + Len(k) - 1) = k

startsWith(s, k) == Len(k) <= Len(s) /\ Slice(s, 1, Len(k)) = k

endsWith(s, k) == Len(k) <= Len(s) /\ Slice(s, Len(s) - Len(k) + 1, Len(s)) = k

\* Index of the first character of s at or after i that is no blank, or Len(s)+1.
RECURSIVE SkipBlanks(_, _)
SkipBlanks(s, i) ==
  IF i > Len(s) THEN Len(s) + 1
  ELSE IF Chr(s, i) \in {" ", "\t", "\n"} THEN SkipBlanks(s, i + 1)
  ELSE i

\* Number of digits of s starting at position i (at most max).
RECURSIVE DigitRun(_, _, _)
DigitRun(s, i, max) ==
  IF max = 0 \/ i > Len(s) \/ ~IsDigit(Chr(s, i)) THEN 0
  ELSE 1 + DigitRun(s, i + 1, max - 1)

\* s without the characters of the set Drop: s.replace(/[...]/g, '').
RECURSIVE RemoveChars(_, _)
RemoveChars(s, Drop) ==
  IF s = "" THEN ""
  ELSE (IF Chr(s, 1) \in Drop THEN "" ELSE Chr(s, 1)) \o RemoveChars(Tail(s), Drop)

\* The value of the digit string s read as a decimal integer.
RECURSIVE DecimalValue(_)
DecimalValue(s) ==
  IF s = "" THEN 0
  ELSE 10 * DecimalValue(Slice(s, 1, Len(s) - 1)) + DigitVal(Chr(s, Len(s)))

\* The value of the digit string s read as a decimal fraction 0.s (fixed point;
\* digits after the fifth are below the resolution).
RECURSIVE FractionValue(_, _)
FractionValue(s, unit) ==
  IF s = "" \/ unit = 0 THEN 0
  ELSE DigitVal(Chr(s, 1)) * unit + FractionValue(Tail(s), unit \div 10)

\* parseFloat on the texts the listing service sends: optional leading blanks,
\* digits, an optional fraction; NaN when no number starts the text.
parseFloat(s) ==
  LET b == SkipBlanks(s, 1)
      n == DigitRun(s, b, Len(s))
      dot == b + n <= Len(s) /\ Chr(s, b + n) = "."
      f == IF dot THEN DigitRun(s, b + n + 1, Len(s)) ELSE 0
  IN  IF n = 0 /\ f = 0 THEN NaN
      ELSE DecimalValue(Slice(s, b, b + n - 1)) * Scale
           + FractionValue(Slice(s, b + n + 1, b + n + f), Scale \div 10)

\* parseInt(s, 10): optional leading blanks, then digits; NaN when there is none.
parseInt(s) ==
  LET b == SkipBlanks(s, 1)
      n == DigitRun(s, b, Len(s))
  IN  IF n = 0 THEN NaN ELSE DecimalValue(Slice(s, b, b + n - 1))

(***************************************************************************)
(* Optional values: undefined / null is the empty sequence.                *)
(***************************************************************************)

None == << >>

Some(v) == << v >>

IsSome(o) == Len(o) = 1

Get(o) == o[1]

(***************************************************************************)
(* Price Normalizer, part_001 lines 186-194                                *)
(***************************************************************************)

\* Position of the first digit of s at or after i, or Len(s)+1.
RECURSIVE FirstDigit(_, _)
FirstDigit(s, i) ==
  IF i > Len(s) THEN Len(s) + 1
  ELSE IF IsDigit(Chr(s, i)) THEN i
  ELSE FirstDigit(s, i + 1)

\* (?:[.,]\d{3})* matched greedily from position i: the position after it.
RECURSIVE ThousandsEnd(_, _)
ThousandsEnd(s, i) ==
  IF i <= Len(s) /\ Chr(s, i) \in {".", ","} /\ DigitRun(s, i + 1, 3) = 3
  THEN ThousandsEnd(s, i + 4)
  ELSE i

\* (?:[.,]\d{2})? matched from position i: the position after it.
CentsEnd(s, i) ==
  IF i <= Len(s) /\ Chr(s, i) \in {".", ","} /\ DigitRun(s, i + 1, 2) = 2
  THEN i + 3
  ELSE i

\* Group 1 of /[\$€£]?(\d{1,3}(?:[.,]\d{3})*(?:[.,]\d{2})?)/ on s: the leftmost
\* match starts at the first digit of s (or at a currency sign just before it).
FirstPriceMatch(s) ==
  LET d == FirstDigit(s, 1)
  IN  IF d > Len(s) THEN None
      ELSE LET a == d + DigitRun(s, d, 3)
               e == CentsEnd(s, ThousandsEnd(s, a))
           IN  Some(Slice(s, d, e - 1))

parsePrice(priceStr) ==
  IF priceStr = "" THEN Infinity
  ELSE LET firstPriceMatch == FirstPriceMatch(priceStr)
       IN  IF ~IsSome(firstPriceMatch) THEN Infinity
           ELSE LET numStr == RemoveChars(Get(firstPriceMatch), {","})
                    price == parseFloat(numStr)
                IN  IF price = NaN THEN Infinity ELSE price

(***************************************************************************)
(* Affiliate-link rewriter, part_001 lines 75-88                           *)
(***************************************************************************)

\* Deno.env.get('AMAZON_AFFILIATE_TAG') || 'aarongurovich-20'
AffiliateTag == "aarongurovich-20"

\* Position of the first character of s at or after i that is in Stop, or Len(s)+1.
RECURSIVE FirstOf(_, _, _)
FirstOf(s, i, Stop) ==
  IF i > Len(s) THEN Len(s) + 1
  ELSE IF Chr(s, i) \in Stop THEN i
  ELSE FirstOf(s, i + 1, Stop)

\* s.split(sep) for a one-character separator.
RECURSIVE Split(_, _)
Split(s, sep) ==
  LET k == FirstOf(s, 1, {sep})
  IN  IF k > Len(s) THEN << s >>
      ELSE << Slice(s, 1, k - 1) >> \o Split(Slice(s, k + 1, Len(s)), sep)

RECURSIVE Join(_, _)
Join(parts, sep) ==
  IF parts = << >> THEN ""
  ELSE IF Len(parts) = 1 THEN parts[1]
  ELSE parts[1] \o sep \o Join(Tail(parts), sep)

\* new URL(text): scheme://host[/path][?query]; None when the text is no absolute
\* http(s) URL (the constructor throws).
ParseUrl(text) ==
  LET scheme == IF startsWith(text, "https://") THEN "https://"
                ELSE IF startsWith(text, "http://") THEN "http://"
                ELSE ""
      h0 == Len(scheme) + 1
      h1 == FirstOf(text, h0, {"/", "?"})
      q0 == FirstOf(text, h1, {"?"})
      path == Slice(text, h1, q0 - 1)
  IN  IF scheme = "" \/ h1 = h0 THEN None
      ELSE Some([scheme |-> scheme,
                 hostname |-> toLowerCase(Slice(text, h0, h1 - 1)),
                 pathname |-> IF path = "" THEN "/" ELSE path,
                 search |-> Slice(text, q0 + 1, Len(text))])

\* url.searchParams.set('tag', value): the first tag pair is overwritten, further
\* tag pairs are dropped, and the pair is appended when there is none.
SetTagParam(search, value) ==
  LET pairs == IF search = "" THEN << >> ELSE Split(search, "&")
      isTag(pr) == pr = "tag" \/ startsWith(pr, "tag=")
      firstTag == CHOOSE i \in 1..(Len(pairs) + 1) :
                     /\ i <= Len(pairs) => isTag(pairs[i])
                     /\ \A j \in 1..(i - 1) : ~isTag(pairs[j])
      before == SubSeq(pairs, 1, firstTag - 1)
      after == SelectSeq(SubSeq(pairs, firstTag + 1, Len(pairs)), LAMBDA pr : ~isTag(pr))
  IN  Join(before \o << "tag=" \o value >> \o after, "&")

addAffiliateTag(productUrl) ==
  IF productUrl = "" THEN productUrl
  ELSE LET url == ParseUrl(productUrl)
       IN  IF ~IsSome(url) THEN productUrl
           ELSE IF ~endsWith(Get(url).hostname, "amazon.com")
                   /\ ~endsWith(Get(url).hostname, "amzn.to")
                THEN productUrl
           ELSE Get(url).scheme \o Get(url).hostname \o Get(url).pathname
                \o "?" \o SetTagParam(Get(url).search, AffiliateTag)

(***************************************************************************)
(* Listings of the acquisition service                                     *)
(***************************************************************************)

Listing(title, price, url, rating, reviews) ==
  [product_title |-> title,
   product_photo |-> "https://m.media-amazon.com/images/I/" \o url \o ".jpg",
   product_price |-> price,
   product_url |-> "https://www.amazon.com/dp/" \o url,
   product_star_rating |-> rating,
   product_num_ratings |-> reviews]

Catalog ==
  { Listing("Acme Saw", "$10.00", "A", "4.5", "50"),
    Listing("Folding Saw", "$15.00", "M", "4.9", "2"),
    Listing("Sony Saw", "$40.00", "C", "4.8", "100"),
    Listing("Acme Saw Plus", "$20.00", "Y1", "3.9", "30"),
    Listing("Bosch Saw", "$20", "Y2", "4.3", "20"),
    Listing("Pack of 3", "$8.00", "K", "4.6", "80"),
    Listing("Refurbished Drill - Pack of 3", "$7.00", "R", "4.9", "500") }

\* A record as the acquisition service may send it; "" is a missing field.
RawListing(title, photo, priceOf, url, rating, reviews) ==
  [product_title |-> title,
   product_photo |-> photo,
   product_price |-> priceOf,
   product_url |-> url,
   product_star_rating |-> rating,
   product_num_ratings |-> reviews]

PhotoUrl == "https://m.media-amazon.com/images/I/X.jpg"

\* Records with a field missing, with a url of another site, and listings
\* around the quality bar of formatProduct.
NoTitle == RawListing("", PhotoUrl, "$5.00", "https://www.amazon.com/dp/T", "4.7", "60")

NoPhoto == RawListing("Bare Saw", "", "$5.00", "https://www.amazon.com/dp/I", "4.7", "60")

NoPrice == RawListing("Free Saw", PhotoUrl, "", "https://www.amazon.com/dp/P", "4.7", "60")

NoUrl == RawListing("Lost Saw", PhotoUrl, "$5.00", "", "4.7", "60")

OtherSite == RawListing("Bay Saw", PhotoUrl, "$5.00", "https://www.ebay.com/itm/F", "4.7", "60")

OtherSiteNamingAmazon ==
  RawListing("Ref Saw", PhotoUrl, "$6.00", "https://www.ebay.com/itm/Q?ref=amazon.com", "4.7", "60")

LowRatedWellReviewed ==
  RawListing("Worn Saw", PhotoUrl, "$12.00", "https://www.amazon.com/dp/W", "2.5", "40")

LowRatedLittleReviewed ==
  RawListing("Dull Saw", PhotoUrl, "$9.50", "https://www.amazon.com/dp/D", "2.5", "2")

MiddlingDear ==
  RawListing("Plain Saw", PhotoUrl, "$30.00", "https://www.amazon.com/dp/L", "3.2", "12")

RawCatalog ==
  { NoTitle, NoPhoto, NoPrice, NoUrl, OtherSite, OtherSiteNamingAmazon,
    LowRatedWellReviewed, LowRatedLittleReviewed, MiddlingDear }

\* Rating and review texts around the thresholds of the quality bars.
RatingSamples == {"", "2.5", "2.9", "3.0", "3.4", "3.5", "4.9"}

ReviewSamples == {"", "0", "4", "5", "9", "10", "40", "1,200"}

FilterSamples ==
  { RawListing(title, PhotoUrl, "$10.00", "https://www.amazon.com/dp/A", rating, reviews) :
      title \in {"Acme Saw", "Used Saw"}, rating \in RatingSamples, reviews \in ReviewSamples }

Listings == Catalog \cup RawCatalog \cup FilterSamples

\* The texts of the listings.  Each text function of the handler is evaluated
\* once per text; the handler reads the results below.
TitleTexts == {p.product_title : p \in Listings}

PriceTexts == {p.product_price : p \in Listings}

UrlTexts == {p.product_url : p \in Listings}

RatingTexts == {p.product_star_rating : p \in Listings}

ReviewTexts == {p.product_num_ratings : p \in Listings}

\* parsePrice of every price text.
parsedPrice == [t \in PriceTexts |-> parsePrice(t)]

\* addAffiliateTag of every url.
taggedLink == [u \in UrlTexts |-> addAffiliateTag(u)]

\* url.includes('amazon.com') of every url.
namesAmazon == [u \in UrlTexts |-> includes(u, "amazon.com")]

(***************************************************************************)
(* Candidate Filter, part_001 lines 147-184                                *)
(***************************************************************************)

excludeKeywords ==
  << "refurbished", "used", "renewed", "open box", "pre-owned",
     "replacement bulb", "spare tire", "repair kit", "parts for",
     "add-on content", "dlc", "accessory bundle", "kit only for",
     "subscription service", "digital code", "download card",
     "protection plan", "extended warranty", "insurance policy",
     "toy version", "play set model", "miniature",
     "sticker sheet", "decorative", "costume piece" >>

\* excludeKeywords.some(keyword => title.includes(keyword))
HasExcludedKeyword(title) ==
  \E k \in 1..Len(excludeKeywords) : includes(title, excludeKeywords[k])

\* title.toLowerCase() has an exclusion keyword, for every title.
titleExcluded == [t \in TitleTexts |-> HasExcludedKeyword(toLowerCase(t))]

\* parseFloat of every rating text.
parsedRating == [t \in RatingTexts |-> parseFloat(t)]

\* parseInt(String(text || '0').replace(/,/g, ''), 10) || 0
parseReviews(text) ==
  OrZero(parseInt(RemoveChars(IF text = "" THEN "0" ELSE text, {","})))

parsedReviews == [t \in ReviewTexts |-> parseReviews(t)]

\* const rating = parseFloat(apiProduct.product_star_rating)
RawRating(p) == parsedRating[p.product_star_rating]

\* const reviews = parseInt(String(apiProduct.product_num_ratings || '0')...) || 0
Reviews(p) == parsedReviews[p.product_num_ratings]

\* parseFloat(p.product_star_rating) || 0
Rating(p) == OrZero(RawRating(p))

\* if (rating < 3.0 && reviews < 5) return null; a NaN rating compares false.
IsLowQuality(p) ==
  RawRating(p) # NaN /\ RawRating(p) < 3 * Scale /\ Reviews(p) < 5

\* part_002 lines 170-171:
\* if (tier === 'essential' && rating < 3.5 && reviews < 10) return null;
\* if (rating < 3.0) return null;
IsLowQualityPart002(p, tier) ==
  /\ RawRating(p) # NaN
  /\ \/ tier = "essential" /\ RawRating(p) < 35 * (Scale \div 10) /\ Reviews(p) < 10
     \/ RawRating(p) < 3 * Scale

\* lines 148-150 and 166-168: a field is missing, the url does not name
\* amazon.com, or the title has an exclusion keyword.
IsRejectedBeforeQuality(apiProduct) ==
  \/ apiProduct.product_title = ""
  \/ apiProduct.product_photo = ""
  \/ apiProduct.product_price = ""
  \/ apiProduct.product_url = ""
  \/ ~namesAmazon[apiProduct.product_url]
  \/ titleExcluded[apiProduct.product_title]

\* lines 147-184 for the outcome of the quality bar
FormatWith(apiProduct, tier, reason, lowQuality) ==
  IF IsRejectedBeforeQuality(apiProduct) THEN None
  ELSE IF lowQuality THEN None
  ELSE Some([name |-> apiProduct.product_title,
             reasonForInclusion |-> reason,
             link |-> taggedLink[apiProduct.product_url],
             image |-> apiProduct.product_photo,
             price |-> apiProduct.product_price,
             rating |-> Rating(apiProduct),
             reviews |-> Reviews(apiProduct),
             tier |-> tier])

formatProduct(apiProduct, tier, reason) ==
  FormatWith(apiProduct, tier, reason, IsLowQuality(apiProduct))

\* formatProduct of part_002, lines 147-183
formatProductPart002(apiProduct, tier, reason) ==
  FormatWith(apiProduct, tier, reason, IsLowQualityPart002(apiProduct, tier))

(***************************************************************************)
(* Bulk-pack patterns, supabase/functions/product-types/index.ts 837-845   *)
(***************************************************************************)

IsWordChar(c) == c \in UpperChars \/ c \in LowerChars \/ IsDigit(c) \/ c = "_"

\* \b at the gap before position i of s.
WordBoundary(s, i) ==
  LET left == i > 1 /\ IsWordChar(Chr(s, i - 1))
      right == i <= Len(s) /\ IsWordChar(Chr(s, i))
  IN  left # right

\* Number of blanks of s starting at position i.
RECURSIVE BlankRun(_, _)
BlankRun(s, i) ==
  IF i > Len(s) \/ Chr(s, i) \notin {" ", "\t", "\n"} THEN 0
  ELSE 1 + BlankRun(s, i + 1)

\* /\b\d+\s*[-]?WORD\b/i on a lower-cased title: digits from a word boundary, any
\* blanks, an optional hyphen (only where allowed), then the word and a boundary.
\* \d+ may give back digits only to another digit, so the run is taken whole.
MatchesCounted(title, word, hyphen) ==
  \E i \in 1..Len(title) :
     /\ IsDigit(Chr(title, i))
     /\ WordBoundary(title, i)
     /\ LET a == i + DigitRun(title, i, Len(title))
            b == a + BlankRun(title, a)
            c == IF hyphen /\ b <= Len(title) /\ Chr(title, b) = "-" THEN b + 1 ELSE b
        IN  \E w \in {b, c} :
               /\ Slice(title, w, w + Len(word) - 1) = word
               /\ WordBoundary(title, w + Len(word))

\* /pack of \d+/i on a lower-cased title.
MatchesPackOf(title) ==
  \E i \in 1..Len(title) :
     /\ Slice(title, i, i + 7) = "pack of "
     /\ i + 8 <= Len(title)
     /\ IsDigit(Chr(title, i + 8))

\* bulkRegex.some(regex => regex.test(title)) for the "<n>-pack", "<n> count"
\* and "pack of <n>" patterns.
MatchesBulkPattern(title) ==
  \/ MatchesCounted(title, "pack", TRUE)
  \/ MatchesCounted(title, "count", FALSE)
  \/ MatchesPackOf(title)

\* MatchesBulkPattern of every lower-cased title.
titleBulk == [t \in TitleTexts |-> MatchesBulkPattern(toLowerCase(t))]

(***************************************************************************)
(* Brand Extractor, part_001 lines 196-231                                 *)
(***************************************************************************)

knownBrands ==
  << "Sony", "Samsung", "Apple", "LG", "Microsoft", "Dell", "HP", "Lenovo", "Asus", "Acer",
     "KitchenAid", "Cuisinart", "OXO", "Ninja", "Instant Pot", "Keurig", "Breville", "Vitamix",
     "Logitech", "Anker", "Bose", "JBL", "Sennheiser", "Audio-Technica", "Razer", "Corsair",
     "Canon", "Nikon", "GoPro", "DJI", "Fujifilm", "Olympus",
     "Stanley", "DeWalt", "Craftsman", "Makita", "Bosch", "Milwaukee",
     "Nike", "Adidas", "Under Armour", "Puma", "Lululemon", "Patagonia", "The North Face",
     "Fisher-Price", "LEGO", "Hasbro", "Mattel", "Playmobil",
     "Amazon Basics", "Utopia Kitchen", "Simple Modern" >>

genericStarters ==
  << "The", "All", "New", "For", "Pro", "Set", "Kit", "Pack", "Hot", "Top", "Best", "Big",
     "Eco", "Ultra", "Super", "Multi", "Heavy", "Duty", "Digital", "Analog", "Mini", "Smart",
     "Premium", "Luxury", "Essential", "Professional", "Beginner" >>

\* The known brand named in the lower-cased title, the first in list order.
KnownBrandIn(titleLower) ==
  LET hit(k) == LET brandLower == toLowerCase(knownBrands[k])
                IN  \/ includes(titleLower, brandLower \o " ")
                    \/ includes(titleLower, brandLower \o "-")
                    \/ startsWith(titleLower, brandLower \o " ")
                    \/ titleLower = brandLower
      hits == {k \in 1..Len(knownBrands) : hit(k)}
  IN  IF hits = {} THEN None
      ELSE Some(knownBrands[CHOOSE k \in hits : \A j \in hits : k <= j])

\* productTitle.split(/[\s-]+/)[0]
FirstWord(productTitle) ==
  Slice(productTitle, 1, FirstOf(productTitle, 1, {" ", "\t", "\n", "-"}) - 1)

\* /^[A-Z0-9]+$/
IsCapsAlnum(w) ==
  w # "" /\ \A i \in 1..Len(w) : Chr(w, i) \in UpperChars \/ IsDigit(Chr(w, i))

\* /^[A-Z][a-zA-Z0-9]+$/
IsTitleCaseWord(w) ==
  /\ Len(w) >= 2
  /\ Chr(w, 1) \in UpperChars
  /\ \A i \in 2..Len(w) :
        Chr(w, i) \in UpperChars \/ Chr(w, i) \in LowerChars \/ IsDigit(Chr(w, i))

\* extractBrand: the brand, or None for null.
extractBrand(productTitle) ==
  IF productTitle = "" THEN None
  ELSE LET known == KnownBrandIn(toLowerCase(productTitle))
           firstWord == FirstWord(productTitle)
       IN  IF IsSome(known) THEN known
           ELSE IF Len(firstWord) > 2 /\ IsOwnUpperCase(firstWord) /\ IsCapsAlnum(firstWord)
                THEN Some(firstWord)
           ELSE IF /\ Len(firstWord) >= 3
                   /\ IsTitleCaseWord(firstWord)
                   /\ \A g \in 1..Len(genericStarters) :
                         toLowerCase(genericStarters[g]) # toLowerCase(firstWord)
                THEN Some(firstWord)
           ELSE None

(***************************************************************************)
(* Tier Selector, part_001 lines 272-470                                   *)
(***************************************************************************)

\* usedProductLinks.has(addAffiliateTag(p.product_url))
IsUsed(p, used) == taggedLink[p.product_url] \in used

\* Array.prototype.sort with a comparator that subtracts numeric keys, keys[i]
\* being the key of seq[i]: the sort is stable, so element i comes after the
\* elements with a smaller key and after the earlier elements with the same key.
StableSort(seq, keys) ==
  LET n == Len(seq)
      rank(i) == 1 + Cardinality({j \in 1..n :
                        \/ keys[j] < keys[i]
                        \/ (keys[j] = keys[i] /\ j < i)})
  IN  [r \in 1..n |-> seq[CHOOSE i \in 1..n : rank(i) = r]]

\* The number a.b with one fractional digit, e.g. Dec(3, 5) for 3.5.
Dec(a, b) == a * Scale + b * (Scale \div 10)

\* extractBrand of every title.
brandOfTitle == [t \in TitleTexts |-> extractBrand(t)]

\* parsePrice(p.product_price)
PriceOf(p) == parsedPrice[p.product_price]

\* extractBrand(p.product_title)
BrandOf(p) == brandOfTitle[p.product_title]

MinOf(S) == CHOOSE i \in S : \A j \in S : i <= j

\* lines 273-282: the structural filter, formatProduct's own rules, the price sort.
InitiallyValidProducts(candidates) ==
  SelectSeq(candidates,
            LAMBDA p : /\ p.product_photo # ""
                       /\ p.product_price # ""
                       /\ p.product_url # ""
                       /\ namesAmazon[p.product_url])

\* line 282: by price, cheapest first.
ByPrice(listings) ==
  StableSort(listings, [i \in 1..Len(listings) |-> PriceOf(listings[i])])

SuitableRawProducts(candidates) ==
  ByPrice(SelectSeq(InitiallyValidProducts(candidates),
                    LAMBDA p : IsSome(formatProduct(p, "essential", ""))))

\* lines 407 and 441: by rating, best first.
ByRating(listings) ==
  StableSort(listings, [i \in 1..Len(listings) |-> 0 - Rating(listings[i])])

\* The cheapest unused listing with rating >= 3.5 and reviews >= 10, and no other.
SelectEssentialNoFallback(suitable, used) ==
  LET free == {i \in 1..Len(suitable) : ~IsUsed(suitable[i], used)}
      good == {i \in free : Rating(suitable[i]) >= Dec(3, 5) /\ Reviews(suitable[i]) >= 10}
  IN  IF good # {} THEN Some(suitable[MinOf(good)]) ELSE None

\* lines 296-308 without the bar: the cheapest unused listing.
SelectEssentialCheapest(suitable, used) ==
  LET free == {i \in 1..Len(suitable) : ~IsUsed(suitable[i], used)}
  IN  IF free # {} THEN Some(suitable[MinOf(free)]) ELSE None

\* lines 296-308: the cheapest unused listing with rating >= 3.5 and reviews >= 10,
\* else the first unused listing.
SelectEssential(suitable, used) ==
  LET free == {i \in 1..Len(suitable) : ~IsUsed(suitable[i], used)}
      good == {i \in free : Rating(suitable[i]) >= Dec(3, 5) /\ Reviews(suitable[i]) >= 10}
  IN  IF good # {} THEN Some(suitable[MinOf(good)])
      ELSE IF Len(suitable) > 0 /\ free # {} THEN Some(suitable[MinOf(free)])
      ELSE None

\* lines 317-334: the loop from the most expensive listing down, from index i with
\* luxuryProduct = lux; the result is luxuryProduct after the loop.
RECURSIVE StrictLuxuryScan(_, _, _, _, _, _)
StrictLuxuryScan(suitable, i, used, ess, essBrand, lux) ==
  IF i = 0 THEN lux
  ELSE LET p == suitable[i]
       IN  IF IsUsed(p, used)
           THEN StrictLuxuryScan(suitable, i - 1, used, ess, essBrand, lux)
           ELSE IF Rating(p) >= Dec(4, 0) /\ Reviews(p) >= 25
           THEN IF IsSome(ess) /\ LeTimes1_2(PriceOf(p), PriceOf(Get(ess)))
                THEN StrictLuxuryScan(suitable, i - 1, used, ess, essBrand, lux)
                ELSE IF IsSome(essBrand) /\ IsSome(BrandOf(p)) /\ BrandOf(p) = essBrand
                THEN Some(p)
                ELSE StrictLuxuryScan(suitable, i - 1, used, ess, essBrand,
                                      IF IsSome(lux) THEN lux ELSE Some(p))
           ELSE StrictLuxuryScan(suitable, i - 1, used, ess, essBrand, lux)

\* lines 338-348: the best-rated unused listing priced above 1.2 x essential with
\* rating >= 4.0, scanning from the most expensive; ties keep the earlier find.
RECURSIVE BestFallbackLuxuryScan(_, _, _, _, _)
BestFallbackLuxuryScan(suitable, i, used, ess, best) ==
  IF i = 0 THEN best
  ELSE LET p == suitable[i]
       IN  IF IsUsed(p, used)
           THEN BestFallbackLuxuryScan(suitable, i - 1, used, ess, best)
           ELSE IF IsSome(ess) /\ LeTimes1_2(PriceOf(p), PriceOf(Get(ess)))
           THEN BestFallbackLuxuryScan(suitable, i - 1, used, ess, best)
           ELSE IF Rating(p) >= Dec(4, 0) /\ (~IsSome(best) \/ Rating(p) > Rating(Get(best)))
           THEN BestFallbackLuxuryScan(suitable, i - 1, used, ess, Some(p))
           ELSE BestFallbackLuxuryScan(suitable, i - 1, used, ess, best)

\* line 351 taking the first of the listings for the last
AbsoluteFallbackCheapest(suitable, used, ess) ==
  LET rest == SelectSeq(suitable,
                LAMBDA p : /\ ~IsUsed(p, used)
                           /\ (~IsSome(ess) \/ PriceOf(p) > PriceOf(Get(ess))))
  IN  IF rest = << >> THEN None ELSE Some(rest[1])

\* line 351: the most expensive unused listing priced above the essential one.
AbsoluteFallbackLuxury(suitable, used, ess) ==
  LET rest == SelectSeq(suitable,
                LAMBDA p : /\ ~IsUsed(p, used)
                           /\ (~IsSome(ess) \/ PriceOf(p) > PriceOf(Get(ess))))
  IN  IF rest = << >> THEN None ELSE Some(rest[Len(rest)])

\* line 336: the fallbacks run when the strict scan found nothing, or found a
\* listing of another brand than the essential one.
LuxuryFallbackNeeded(lux, essBrand) ==
  \/ ~IsSome(lux)
  \/ (IsSome(essBrand) /\ BrandOf(Get(lux)) # essBrand)

\* lines 349-352: the best fallback if there is one, else the absolute fallback
\* when the strict scan found nothing.
LuxuryFallback(suitable, used, ess, strict, bestFallbackLuxury) ==
  IF IsSome(bestFallbackLuxury) THEN bestFallbackLuxury
  ELSE IF ~IsSome(strict) /\ Len(suitable) > 0
  THEN AbsoluteFallbackLuxury(suitable, used, ess)
  ELSE strict

\* lines 336-353 for the result of the strict scan
LuxuryAfterStrict(suitable, used, ess, essBrand, strict) ==
  IF LuxuryFallbackNeeded(strict, essBrand)
  THEN LuxuryFallback(suitable, used, ess, strict,
                      BestFallbackLuxuryScan(suitable, Len(suitable), used, ess, None))
  ELSE strict

\* lines 315-353
SelectLuxury(suitable, used, ess, essBrand) ==
  LuxuryAfterStrict(suitable, used, ess, essBrand,
                    StrictLuxuryScan(suitable, Len(suitable), used, ess, essBrand, None))

\* lines 373-376 and 409-411
PremiumPriceOk(p, ess, lux) ==
  /\ ~(IsSome(ess) /\ PriceOf(p) <= PriceOf(Get(ess)))
  /\ ~(IsSome(lux) /\ PriceOf(p) >= PriceOf(Get(lux)))

\* The brand bonus alone.
PremiumScoreBrandOnly(p, essBrand) ==
  IF IsSome(essBrand) /\ IsSome(BrandOf(p)) /\ BrandOf(p) = essBrand
  THEN Scale \div 2 ELSE 0

\* lines 380-384: the rating, plus 0.5 for the brand of the essential listing.
PremiumScore(p, essBrand) ==
  Rating(p) + (IF IsSome(essBrand) /\ IsSome(BrandOf(p)) /\ BrandOf(p) = essBrand
               THEN Scale \div 2 ELSE 0)

\* lines 366-390: the loop over the pool from index i with bestPremiumCandidate =
\* best and bestPremiumScore = bestScore.
RECURSIVE BestPremiumScan(_, _, _, _, _, _, _)
BestPremiumScan(pool, i, ess, lux, essBrand, best, bestScore) ==
  IF i > Len(pool) THEN best
  ELSE LET p == pool[i]
       IN  IF Rating(p) < Dec(3, 8) \/ Reviews(p) < 15
           THEN BestPremiumScan(pool, i + 1, ess, lux, essBrand, best, bestScore)
           ELSE IF ~PremiumPriceOk(p, ess, lux)
           THEN BestPremiumScan(pool, i + 1, ess, lux, essBrand, best, bestScore)
           ELSE IF PremiumScore(p, essBrand) > bestScore
           THEN BestPremiumScan(pool, i + 1, ess, lux, essBrand, Some(p),
                                PremiumScore(p, essBrand))
           ELSE BestPremiumScan(pool, i + 1, ess, lux, essBrand, best, bestScore)

\* lines 408-416: the first of others with a price in order and rating >= 3.8.
FirstFitting(others, ess, lux) ==
  IF \E i \in 1..Len(others) :
        PremiumPriceOk(others[i], ess, lux) /\ Rating(others[i]) >= Dec(3, 8)
  THEN Some(others[MinOf({i \in 1..Len(others) :
                PremiumPriceOk(others[i], ess, lux) /\ Rating(others[i]) >= Dec(3, 8)})])
  ELSE None

\* lines 405-417: the other pool members by rating, the first that fits.
OtherPremium(pool, best, ess, lux) ==
  FirstFitting(ByRating(SelectSeq(pool, LAMBDA c : c.product_url # Get(best).product_url)),
               ess, lux)

\* lines 392-418: bestPremiumCandidate is taken, unless it is out of order between
\* an essential and a luxury listing: then another pool member is tried.
PremiumAfterScan(pool, best, ess, lux) ==
  IF ~IsSome(best) THEN None
  ELSE IF /\ IsSome(ess) /\ IsSome(lux)
          /\ (\/ PriceOf(Get(best)) <= PriceOf(Get(ess))
              \/ PriceOf(Get(best)) >= PriceOf(Get(lux)))
  THEN OtherPremium(pool, best, ess, lux)
  ELSE best

\* lines 363-418 for a given premiumCandidatePool
PremiumFromPool(pool, ess, lux, essBrand) ==
  PremiumAfterScan(pool, BestPremiumScan(pool, 1, ess, lux, essBrand, None, 0 - Scale),
                   ess, lux)

\* lines 362-419
SelectPremium(suitable, used, ess, lux, essBrand) ==
  PremiumFromPool(SelectSeq(suitable, LAMBDA p : ~IsUsed(p, used)), ess, lux, essBrand)

\* usedProductLinks.add(addAffiliateTag(product.product_url)) when product is set
AddLink(used, product) ==
  IF IsSome(product) THEN used \cup {taggedLink[Get(product).product_url]} ELSE used

\* line 312: essentialBrand = extractBrand(essentialProduct.product_title)
AnchorBrand(ess) == IF IsSome(ess) THEN BrandOf(Get(ess)) ELSE None

Tiers == {"essential", "premium", "luxury"}

\* lines 444 and 465: the display order of the tiers.
tierRank == [t \in Tiers |-> CASE t = "essential" -> 1 [] t = "premium" -> 2 [] t = "luxury" -> 3]

tierOrder == << "essential", "premium", "luxury" >>

\* finalTieredProducts.push(formatted) when product is set and formats.
PushFormatted(final, product, tier, reason) ==
  IF IsSome(product)
  THEN final \o formatProduct(Get(product), tier, reason)
  ELSE final

\* lines 421-436: essential, premium, luxury, each with its reason text.
AssembleTiers(ess, prem, lux, reasons) ==
  PushFormatted(
    PushFormatted(
      PushFormatted(<< >>, ess, "essential", reasons["essential"]),
      prem, "premium", reasons["premium"]),
    lux, "luxury", reasons["luxury"])

\* lines 447-460: the loop over tierOrder from index k; fill is shifted for every
\* tier that is not yet present.
RECURSIVE BackfillLoop(_, _, _, _, _)
BackfillLoop(k, final, fill, currentTiers, reasons) ==
  IF k > Len(tierOrder) \/ Len(final) >= 3 THEN final
  ELSE LET tier == tierOrder[k]
       IN  IF tier \in currentTiers
           THEN BackfillLoop(k + 1, final, fill, currentTiers, reasons)
           ELSE IF fill = << >>
           THEN BackfillLoop(k + 1, final, fill, currentTiers, reasons)
           ELSE LET formatted == formatProduct(Head(fill), tier, reasons[tier])
                IN  IF IsSome(formatted)
                    THEN BackfillLoop(k + 1, final \o formatted, Tail(fill),
                                      currentTiers \cup {tier}, reasons)
                    ELSE BackfillLoop(k + 1, final, Tail(fill), currentTiers, reasons)

\* line 440: the listings whose link is not in the list yet
UnlistedCandidates(final, suitable) ==
  SelectSeq(suitable,
            LAMBDA p : \A i \in 1..Len(final) : taggedLink[p.product_url] # final[i].link)

\* No tier counts as present.
NoCurrentTiers(final) == {}

\* line 443
CurrentTiers(final) == {final[i].tier : i \in 1..Len(final)}

\* lines 439-461: with fewer than two tiers and spare candidates, the missing
\* tiers take the best-rated listings whose link is not in the list yet.
Backfill(final, suitable, reasons) ==
  IF Len(final) < 2 /\ Len(suitable) > Len(final)
  THEN BackfillLoop(1, final, ByRating(UnlistedCandidates(final, suitable)),
                    CurrentTiers(final), reasons)
  ELSE final

\* lines 468-469: records by parsePrice(a.price) - parsePrice(b.price)
ByRecordPrice(final) ==
  StableSort(final, [i \in 1..Len(final) |-> parsedPrice[final[i].price]])

\* lines 465-467: records by tierRank[a.tier] - tierRank[b.tier]
ByTierRank(final) ==
  StableSort(final, [i \in 1..Len(final) |-> tierRank[final[i].tier]])

\* lines 464-470: by tier, and by price within a tier.
SortFinal(final) == ByTierRank(ByRecordPrice(final))

\* lines 421-477: the body of the response for the three selections.
FinalTieredProducts(ess, prem, lux, suitable, reasons) ==
  SortFinal(Backfill(AssembleTiers(ess, prem, lux, reasons), suitable, reasons))

(***************************************************************************)
(* Reason texts, part_001 lines 42-73                                      *)
(***************************************************************************)

\* The request body: { baseKeywords, productType }.
BaseKeywords == "woodworking"

ProductType == "Hand Saw"

FallbackReason ==
  "This " \o toLowerCase(ProductType) \o " is a valuable item for beginners in "
  \o BaseKeywords \o ", helping to get started effectively."

\* A completion of the language model, already trimmed and at most 150 characters.
GeneratedReason == "Cuts cleanly and is easy to control."

\* getReasonForInclusion answers with the completion, or with the fallback text
\* when there is no client, no content or an error: one text per tier record.
ReasonChoices == [Tiers -> {FallbackReason, GeneratedReason}]

\* Longest candidate list the acquisition returns (both pages together).
MaxPool == 4

Pools == UNION {[1..n -> Catalog] : n \in 0..MaxPool}


(***************************************************************************)
(* The amazon-search handler, part_001 lines 233-496                       *)
(***************************************************************************)

VARIABLES
  pc,                  \* position of the handler
  feed,                \* what the acquisition service holds for the query
  candidateProducts,   \* line 257
  suitableRawProducts, \* line 276
  usedProductLinks,    \* line 290
  essentialProduct,    \* line 291
  premiumProduct,      \* line 292
  luxuryProduct,       \* line 293
  essentialBrand,      \* line 294
  response,            \* the Response returned: status and JSON body
  prev,                \* candidates and tiers of the previous request
  kitPc,               \* position of searchAmazonProducts
  productTypeDetails,  \* api.ts line 67
  resolvedGroups,      \* api.ts lines 80-125: one promise per product type
  kitResult,           \* what searchAmazonProducts resolved or rejected with
  now,                 \* Date.now()
  requestLog,          \* line 12: the admitted timestamps kept per client
  admitted,            \* every timestamp isRateLimited admitted, per client
  handlers,            \* the invocations of the handler under way
  arrivals,            \* requests received so far
  priceText,           \* a price text given to parsePrice
  priceValue,          \* what parsePrice returned for it, once it has
  formatCall,          \* a record and a tier given to formatProduct
  formatResult,        \* what formatProduct returned for them, once it has
  service,             \* the environment's key and what the search API answers per page
  page1Products,       \* line 259
  requested,           \* the pages fetchAmazonApi was called for, in order
  searchTerm,          \* ProductContext
  products,            \* ProductContext
  isLoading,           \* ProductContext
  error,               \* ProductContext
  learningResources,   \* ProductContext
  isLearningResourcesLoading, \* ProductContext
  learningResourcesError,     \* ProductContext
  lastSearchTime,      \* SearchForm.tsx line 24, while the form is mounted
  activeTab,           \* ResultsPage.tsx line 293, while the page is mounted
  searching,           \* the activity of the searchAmazonProducts call under way
  resourceFetches,     \* the searchLearningResources calls under way
  fetchCount,          \* searchLearningResources calls started so far
  autoFetches,         \* those the effects started since ResultsPage was mounted
  effectsDue,          \* ResultsPage has rendered and its effects have not run yet
  submits,             \* submits accepted so far
  lastAccepted         \* Date.now() of the last accepted submit

tierVars == << candidateProducts, suitableRawProducts, usedProductLinks, essentialProduct,
               premiumProduct, luxuryProduct, essentialBrand >>

handlerVars == << pc, feed, tierVars, response, prev >>

kitVars == << kitPc, productTypeDetails, resolvedGroups, kitResult >>

gateVars == << now, requestLog, admitted, handlers, arrivals >>

callVars == << priceText, priceValue, formatCall, formatResult >>

pageVars == << service, page1Products, requested >>

contextVars == << searchTerm, products, isLoading, error, learningResources,
                 isLearningResourcesLoading, learningResourcesError >>

uiVars == << contextVars, lastSearchTime, activeTab, searching, resourceFetches, fetchCount,
            autoFetches, effectsDue, submits, lastAccepted >>

vars == << handlerVars, kitVars, gateVars, callVars, pageVars, uiVars >>

\* A set of links kept from one request to the next.
KeptUsedProductLinks == usedProductLinks

\* line 290: const usedProductLinks = new Set<string>()
NewUsedProductLinks == {}

\* new Response(JSON.stringify(body), { status, headers }); the status is 200
\* when none is given.
JsonResponse(status, body) == Some([status |-> status, body |-> body])

\* An error status with the same body.
EmptyListAsError == JsonResponse(500, << >>)

\* lines 267-269 and 286: new Response(JSON.stringify([]), { headers })
EmptyList == JsonResponse(200, << >>)

\* The application as ProductProvider and SearchForm start it: the search
\* page, nothing typed, nothing asked for.
UiIdle ==
  /\ searchTerm = ""
  /\ products = << >>
  /\ isLoading = FALSE
  /\ error = ""
  /\ learningResources = << >>
  /\ isLearningResourcesLoading = FALSE
  /\ learningResourcesError = ""
  /\ lastSearchTime = Some(0)
  /\ activeTab = None
  /\ searching = None
  /\ resourceFetches = {}
  /\ fetchCount = 0
  /\ autoFetches = 0
  /\ effectsDue = FALSE
  /\ submits = 0
  /\ lastAccepted = None

\* The handler has called fetchAmazonApi for no page.
PagesIdle ==
  /\ service = [rapidApiKey |-> "k3y", reply |-> << >>]
  /\ page1Products = << >>
  /\ requested = << >>

InitHandler ==
  /\ pc = "idle"
  /\ candidateProducts = << >>
  /\ suitableRawProducts = << >>
  /\ usedProductLinks = {}
  /\ essentialProduct = None
  /\ premiumProduct = None
  /\ luxuryProduct = None
  /\ essentialBrand = None
  /\ response = None
  /\ prev = None

InitKit ==
  /\ kitPc = "idle"
  /\ productTypeDetails = << >>
  /\ resolvedGroups = << >>
  /\ kitResult = None

(***************************************************************************)
(* The rate limiter, lines 10-12 and 90-102                                *)
(***************************************************************************)

RATE_LIMIT_WINDOW == 60000

MAX_REQUESTS_PER_WINDOW == 30

\* The request headers the handler reads; "" is an absent header.
Headers(forwardedFor, realIp) ==
  [forwardedFor |-> forwardedFor, realIp |-> realIp]

RequestHeaders ==
  { Headers("203.0.113.7", ""), Headers("", "203.0.113.7"),
    Headers("203.0.113.7", "198.51.100.2"), Headers("", "") }

\* line 239: x-forwarded-for || x-real-ip || 'unknown_ip'
clientIpOf(headers) ==
  IF headers.forwardedFor # "" THEN headers.forwardedFor
  ELSE IF headers.realIp # "" THEN headers.realIp
  ELSE "unknown_ip"

Clients == { clientIpOf(headers) : headers \in RequestHeaders }

\* line 92 with one log for every client
requestsOfAnyClient(log, clientIp) == log["unknown_ip"]

\* line 92: requestLog.get(clientIp) || []
requestsOf(log, clientIp) == log[clientIp]

\* line 93: the timestamps less than a window old
recentRequests(log, clientIp, t) ==
  SelectSeq(requestsOf(log, clientIp), LAMBDA timestamp : t - timestamp < RATE_LIMIT_WINDOW)

\* line 95 with "more than" for "at least"
LimitExceededAbove(recent) == Len(recent) > MAX_REQUESTS_PER_WINDOW

\* line 95
LimitReached(recent) == Len(recent) >= MAX_REQUESTS_PER_WINDOW

\* lines 90-102: what isRateLimited returns
isRateLimited(log, clientIp, t) == LimitReached(recentRequests(log, clientIp, t))

\* lines 99-100: the log after an admitted request
requestLogAfter(log, clientIp, t) ==
  [log EXCEPT ![clientIp] = Append(recentRequests(log, clientIp, t), t)]

\* lines 95-98 with the refused request recorded as well
requestLogRecordingRefused(log, clientIp, t) == requestLogAfter(log, clientIp, t)

\* lines 95-98: the limiter returns before requestLog.set; the log is as it was
requestLogRefused(log, clientIp, t) == log

Handlers == {1, 2}

HandlerState(pcOf, clientIp, limited, status, retryAfter, acquired) ==
  [pc |-> pcOf, clientIp |-> clientIp, limited |-> limited, status |-> status,
   retryAfter |-> retryAfter, acquired |-> acquired]

IdleHandler == HandlerState("idle", "", FALSE, 0, "", FALSE)

\* lines 240-244 without the return
ContinuesAfterLimitCheck(limited) == "admitted"

\* lines 240-244: a limited request is answered at once
AfterLimitCheck(limited) == IF limited THEN "done" ELSE "admitted"

\* The clock advances in steps of half a window.
TickMs == RATE_LIMIT_WINDOW \div 2

Repeat(n, t) == [i \in 1..n |-> t]

GateIdle ==
  /\ now = 0
  /\ requestLog = [c \in Clients |-> << >>]
  /\ admitted = [c \in Clients |-> << >>]
  /\ handlers = [h \in Handlers |-> IdleHandler]
  /\ arrivals = 0

CallsIdle ==
  /\ priceText = ""
  /\ priceValue = None
  /\ formatCall = None
  /\ formatResult = None

Init ==
  /\ feed \in Pools
  /\ InitHandler
  /\ PagesIdle
  /\ UiIdle
  /\ InitKit
  /\ GateIdle
  /\ CallsIdle

\* lines 233-257: a POST with baseKeywords and productType is taken up; the list
\* of candidates starts empty.
Receive ==
  /\ pc = "idle"
  /\ candidateProducts' = << >>
  /\ pc' = "fetch"
  /\ UNCHANGED << feed, suitableRawProducts, usedProductLinks, essentialProduct,
                  premiumProduct, luxuryProduct, essentialBrand, response, prev, kitVars, gateVars, callVars, pageVars, uiVars >>

\* lines 258-264: the acquisition answers; both pages are in candidateProducts.
FetchOk ==
  /\ pc = "fetch"
  /\ candidateProducts' = feed
  /\ pc' = "filter"
  /\ UNCHANGED << feed, suitableRawProducts, usedProductLinks, essentialProduct,
                  premiumProduct, luxuryProduct, essentialBrand, response, prev, kitVars, gateVars, callVars, pageVars, uiVars >>

\* lines 265-270: the acquisition throws; the handler answers with an empty list.
FetchFail ==
  /\ pc = "fetch"
  /\ response' = EmptyList
  /\ pc' = "done"
  /\ UNCHANGED << feed, tierVars, prev, kitVars, gateVars, callVars, pageVars, uiVars >>

\* lines 272-288: nothing passes the filter; the handler answers with an empty list.
FilterNothing ==
  /\ pc = "filter"
  /\ SuitableRawProducts(candidateProducts) = << >>
  /\ suitableRawProducts' = << >>
  /\ response' = EmptyList
  /\ pc' = "done"
  /\ UNCHANGED << feed, candidateProducts, usedProductLinks, essentialProduct,
                  premiumProduct, luxuryProduct, essentialBrand, prev, kitVars, gateVars, callVars, pageVars, uiVars >>

\* lines 272-294: the filter and the price sort leave candidates; the selection
\* starts with its own set of used links and no tier chosen.
Filter ==
  /\ pc = "filter"
  /\ SuitableRawProducts(candidateProducts) # << >>
  /\ suitableRawProducts' = SuitableRawProducts(candidateProducts)
  /\ usedProductLinks' = NewUsedProductLinks
  /\ essentialProduct' = None
  /\ premiumProduct' = None
  /\ luxuryProduct' = None
  /\ essentialBrand' = None
  /\ pc' = "essential"
  /\ UNCHANGED << feed, candidateProducts, response, prev, kitVars, gateVars, callVars, pageVars, uiVars >>

\* lines 296-313
PickEssential ==
  /\ pc = "essential"
  /\ essentialProduct' = SelectEssential(suitableRawProducts, usedProductLinks)
  /\ essentialBrand' = AnchorBrand(essentialProduct')
  /\ usedProductLinks' = AddLink(usedProductLinks, essentialProduct')
  /\ pc' = "luxury"
  /\ UNCHANGED << feed, candidateProducts, suitableRawProducts, premiumProduct,
                  luxuryProduct, response, prev, kitVars, gateVars, callVars, pageVars, uiVars >>

\* lines 315-358
PickLuxury ==
  /\ pc = "luxury"
  /\ luxuryProduct' = SelectLuxury(suitableRawProducts, usedProductLinks,
                                   essentialProduct, essentialBrand)
  /\ usedProductLinks' = AddLink(usedProductLinks, luxuryProduct')
  /\ pc' = "premium"
  /\ UNCHANGED << feed, candidateProducts, suitableRawProducts, essentialProduct,
                  premiumProduct, essentialBrand, response, prev, kitVars, gateVars, callVars, pageVars, uiVars >>

\* lines 360-419
PickPremium ==
  /\ pc = "premium"
  /\ premiumProduct' = SelectPremium(suitableRawProducts, usedProductLinks,
                                     essentialProduct, luxuryProduct, essentialBrand)
  /\ usedProductLinks' = AddLink(usedProductLinks, premiumProduct')
  /\ pc' = "respond"
  /\ UNCHANGED << feed, candidateProducts, suitableRawProducts, essentialProduct,
                  luxuryProduct, essentialBrand, response, prev, kitVars, gateVars, callVars, pageVars, uiVars >>

\* lines 421-477: the reasons, the records, the backfill, the final sort.
Respond ==
  /\ pc = "respond"
  /\ \E reasons \in ReasonChoices :
        response' = JsonResponse(200,
                                 FinalTieredProducts(
                                   essentialProduct, premiumProduct, luxuryProduct,
                                   suitableRawProducts, reasons))
  /\ pc' = "done"
  /\ UNCHANGED << feed, tierVars, prev, kitVars, gateVars, callVars, pageVars, uiVars >>

\* The response is delivered; the isolate waits for the next request, for the
\* same query.
NextRequest ==
  /\ pc = "done"
  /\ pc' = "idle"
  /\ response' = None
  /\ UNCHANGED << feed, tierVars, prev, kitVars, gateVars, callVars, pageVars, uiVars >>

Next ==
  \/ Receive
  \/ FetchOk
  \/ FetchFail
  \/ FilterNothing
  \/ Filter
  \/ PickEssential
  \/ PickLuxury
  \/ PickPremium
  \/ Respond
  \/ NextRequest

Spec == Init /\ [][Next]_vars

(***************************************************************************)
(* Two and more requests for one query, the outcome of each kept for the   *)
(* next                                                                    *)
(***************************************************************************)

\* The body of the response, or the empty list while there is none.
ResponseBody == IF IsSome(response) THEN Get(response).body ELSE << >>

\* The fields of a record that the tier selection decides.
SelectedFields == {"name", "link", "image", "price", "rating", "reviews", "tier"}

\* A response body without the reason texts.
TierView(body) == [i \in 1..Len(body) |-> [f \in SelectedFields |-> body[i][f]]]

\* The response is delivered and remembered with the candidates it was made from;
\* the next request is for the same query.
Again ==
  /\ pc = "done"
  /\ prev' = Some([candidates |-> candidateProducts, tiers |-> TierView(ResponseBody)])
  /\ pc' = "idle"
  /\ response' = None
  /\ UNCHANGED << feed, tierVars, kitVars, gateVars, callVars, pageVars, uiVars >>

NextRepeat ==
  \/ Receive
  \/ FetchOk
  \/ FetchFail
  \/ FilterNothing
  \/ Filter
  \/ PickEssential
  \/ PickLuxury
  \/ PickPremium
  \/ Respond
  \/ Again

SpecRepeat == Init /\ [][NextRepeat]_vars

(***************************************************************************)
(* searchAmazonProducts, grouped version, src/services/api.ts lines 61-147 *)
(***************************************************************************)

\* String.prototype.trim for blanks.
RECURSIVE trim(_)
trim(s) ==
  IF s = "" THEN s
  ELSE IF Chr(s, 1) = " " THEN trim(Slice(s, 2, Len(s)))
  ELSE IF Chr(s, Len(s)) = " " THEN trim(Slice(s, 1, Len(s) - 1))
  ELSE s

\* What the user typed.
Activities == {"", "  ", BaseKeywords}

\* Product types as getEssentialProductTypes returns them.
HandSaw ==
  [productType |-> ProductType, explanation |-> "Cuts boards to length.", startingPrice |-> 10]

Clamp ==
  [productType |-> "Clamp", explanation |-> "Holds the work still.", startingPrice |-> 8]

ProductTypeLists == {<< >>, << HandSaw >>, << HandSaw, Clamp >>}

\* Longest candidate list behind one amazon-search response of a kit.
MaxKitPool == 2

KitPools == UNION {[1..n -> Catalog] : n \in 0..MaxKitPool}

\* part_001 lines 315-477 for the survivors and the essential and luxury picks
TiersFromLuxury(suitable, ess, lux, reasons) ==
  FinalTieredProducts(
    ess,
    SelectPremium(suitable, AddLink(AddLink(NewUsedProductLinks, ess), lux), ess, lux,
                  AnchorBrand(ess)),
    lux, suitable, reasons)

\* part_001 lines 310-477 for the survivors and the essential pick
TiersFromEssential(suitable, ess, reasons) ==
  TiersFromLuxury(suitable, ess,
                  SelectLuxury(suitable, AddLink(NewUsedProductLinks, ess), ess,
                               AnchorBrand(ess)),
                  reasons)

\* part_001 lines 284-477 for the survivors
TiersFromSuitable(suitable, reasons) ==
  IF suitable = << >> THEN << >>
  ELSE TiersFromEssential(suitable, SelectEssential(suitable, NewUsedProductLinks), reasons)

\* The bodies amazon-search answers with status 200.
AmazonSearchBodies ==
  {TiersFromSuitable(SuitableRawProducts(pool), reasons) :
     pool \in KitPools, reasons \in ReasonChoices}

\* api.ts lines 104-109: tiers[p.tier] = p for each record, the last one staying.
TiersOf(productsForType) ==
  [t \in {productsForType[i].tier : i \in 1..Len(productsForType)} |->
     productsForType[CHOOSE i \in 1..Len(productsForType) :
                       /\ productsForType[i].tier = t
                       /\ \A j \in (i + 1)..Len(productsForType) :
                             productsForType[j].tier # t]]

\* api.ts lines 102-118: the group of a product type, or null without any tier.
GroupOf(detail, productsForType) ==
  IF \E i \in 1..Len(productsForType) : productsForType[i].tier \in Tiers
  THEN Some([productTypeConcept |-> detail.productType,
             explanation |-> detail.explanation,
             tiers |-> TiersOf(productsForType)])
  ELSE None

\* A promise of productPromises: pending, or resolved with a group or with null.
\* "failed" remembers that the promise took the path of a failed request.
Pending == [settled |-> FALSE, group |-> None, failed |-> FALSE]

Resolved(group) == [settled |-> TRUE, group |-> group, failed |-> FALSE]

\* api.ts lines 96-101 and 119-122: the promise of a failed request resolves with null.
Failed == [settled |-> TRUE, group |-> None, failed |-> TRUE]

\* api.ts lines 138-142
PassedOnPhrases ==
  << "No essential product types could be determined",
     "couldn't generate product types",
     "AI service might be unresponsive",
     "AI response was not in the expected format",
     "had trouble understanding the product types" >>

\* api.ts lines 136-146: the error searchAmazonProducts rejects with.
KitError(message) ==
  IF \E i \in 1..Len(PassedOnPhrases) : includes(message, PassedOnPhrases[i])
  THEN message
  ELSE "Unable to build the starter kit for " \o BaseKeywords \o ". "
       \o (IF startsWith(message, "Unable to build") THEN "" ELSE "Details: ")
       \o message

\* api.ts line 70
NoTypesMessage ==
  "No essential product types could be determined for " \o BaseKeywords
  \o ". Please try a more specific or different term."

\* api.ts line 129
NoProductsMessage ==
  "No products found for the starter kit: " \o BaseKeywords
  \o ", despite identifying product types. Try a broader or different search term, "
  \o "or check if the backend search is working."

\* api.ts lines 53-56: what getEssentialProductTypes rejects with.
ProductTypesFailures ==
  { "AI service might be unresponsive",
    "Failed to identify essential product types/prices for " \o BaseKeywords
      \o ". Original error: Failed to fetch product types/prices" }

KitResolved(groups) == Some([ok |-> TRUE, groups |-> groups, error |-> ""])

KitRejected(message) == Some([ok |-> FALSE, groups |-> << >>, error |-> KitError(message)])

\* api.ts line 126 keeping the first result only
FirstGroupOnly(resolved) ==
  IF resolved = << >> THEN << >> ELSE resolved[1].group

\* api.ts line 126: the groups that are not null, in the order of the product types.
RECURSIVE NonNullGroups(_)
NonNullGroups(resolved) ==
  IF resolved = << >> THEN << >>
  ELSE resolved[1].group \o NonNullGroups(Tail(resolved))

\* api.ts line 125 resolving with the first promise that settles
AnySettled(resolved) == \E i \in 1..Len(resolved) : resolved[i].settled

\* api.ts line 125: Promise.all resolves when every promise has
AllSettled(resolved) == \A i \in 1..Len(resolved) : resolved[i].settled

InitKitOnly ==
  /\ feed = << >>
  /\ InitHandler
  /\ PagesIdle
  /\ UiIdle
  /\ InitKit
  /\ GateIdle
  /\ CallsIdle

\* api.ts lines 62-65
KitEmptyActivity ==
  /\ kitPc = "idle"
  /\ \E activity \in Activities : trim(activity) = ""
  /\ kitResult' = KitResolved(<< >>)
  /\ kitPc' = "done"
  /\ UNCHANGED << productTypeDetails, resolvedGroups, handlerVars, gateVars, callVars, pageVars, uiVars >>

\* api.ts lines 67 and 136-146: getEssentialProductTypes rejects.
KitTypesFail ==
  /\ kitPc = "idle"
  /\ \E activity \in Activities : trim(activity) # ""
  /\ \E message \in ProductTypesFailures : kitResult' = KitRejected(message)
  /\ kitPc' = "done"
  /\ UNCHANGED << productTypeDetails, resolvedGroups, handlerVars, gateVars, callVars, pageVars, uiVars >>

\* api.ts lines 67-71: no product type came back.
KitNoTypes ==
  /\ kitPc = "idle"
  /\ \E activity \in Activities : trim(activity) # ""
  /\ productTypeDetails' = << >>
  /\ kitResult' = KitRejected(NoTypesMessage)
  /\ kitPc' = "done"
  /\ UNCHANGED << resolvedGroups, handlerVars, gateVars, callVars, pageVars, uiVars >>

\* api.ts lines 67-94: one request per product type is under way.
KitStart ==
  /\ kitPc = "idle"
  /\ \E activity \in Activities : trim(activity) # ""
  /\ \E details \in ProductTypeLists :
        /\ Len(details) > 0
        /\ productTypeDetails' = details
        /\ resolvedGroups' = [i \in 1..Len(details) |-> Pending]
  /\ kitPc' = "fetching"
  /\ UNCHANGED << kitResult, handlerVars, gateVars, callVars, pageVars, uiVars >>

\* api.ts lines 96-101: amazon-search answers with another status than 2xx.
FetchNotOk(i) ==
  /\ kitPc = "fetching"
  /\ ~resolvedGroups[i].settled
  /\ resolvedGroups' = [resolvedGroups EXCEPT ![i] = Failed]
  /\ UNCHANGED << kitPc, productTypeDetails, kitResult, handlerVars, gateVars, callVars, pageVars, uiVars >>

\* api.ts lines 119-122: fetch or response.json() throws.
FetchNetworkError(i) ==
  /\ kitPc = "fetching"
  /\ ~resolvedGroups[i].settled
  /\ resolvedGroups' = [resolvedGroups EXCEPT ![i] = Failed]
  /\ UNCHANGED << kitPc, productTypeDetails, kitResult, handlerVars, gateVars, callVars, pageVars, uiVars >>

\* api.ts lines 102-118: amazon-search answers with its list of tier records.
FetchProducts(i) ==
  /\ kitPc = "fetching"
  /\ ~resolvedGroups[i].settled
  /\ \E productsForType \in AmazonSearchBodies :
        resolvedGroups' =
          [resolvedGroups EXCEPT ![i] = Resolved(GroupOf(productTypeDetails[i], productsForType))]
  /\ UNCHANGED << kitPc, productTypeDetails, kitResult, handlerVars, gateVars, callVars, pageVars, uiVars >>

\* api.ts lines 125-134: every promise is settled and a group is left.
KitJoin ==
  /\ kitPc = "fetching"
  /\ AllSettled(resolvedGroups)
  /\ NonNullGroups(resolvedGroups) # << >>
  /\ kitResult' = KitResolved(NonNullGroups(resolvedGroups))
  /\ kitPc' = "done"
  /\ UNCHANGED << productTypeDetails, resolvedGroups, handlerVars, gateVars, callVars, pageVars, uiVars >>

\* api.ts lines 125-132 and 136-146: every promise is settled and no group is left.
KitJoinEmpty ==
  /\ kitPc = "fetching"
  /\ AllSettled(resolvedGroups)
  /\ NonNullGroups(resolvedGroups) = << >>
  /\ kitResult' = KitRejected(NoProductsMessage)
  /\ kitPc' = "done"
  /\ UNCHANGED << productTypeDetails, resolvedGroups, handlerVars, gateVars, callVars, pageVars, uiVars >>

NextKit ==
  \/ KitEmptyActivity
  \/ KitTypesFail
  \/ KitNoTypes
  \/ KitStart
  \/ \E i \in 1..Len(resolvedGroups) : FetchNotOk(i)
  \/ \E i \in 1..Len(resolvedGroups) : FetchNetworkError(i)
  \/ \E i \in 1..Len(resolvedGroups) : FetchProducts(i)
  \/ KitJoin
  \/ KitJoinEmpty

SpecKit == InitKitOnly /\ [][NextKit]_vars

(***************************************************************************)
(* The handler behind its rate limiter, lines 233-252, several requests    *)
(* under way at once                                                       *)
(***************************************************************************)

\* Ticks of the clock after the first one.
MaxTicks == 3

\* Requests that arrive after the first tick.
MaxArrivals == 2

\* How far below the cap a client's earlier requests may have left its log.
MaxSpare == 1

\* The logs a client can have built up by the first tick: none, a few or all
\* of its requests admitted at time 0 and the others one tick later.
PriorTotals == {0} \cup ((MAX_REQUESTS_PER_WINDOW - MaxSpare)..MAX_REQUESTS_PER_WINDOW)

PriorLogs ==
  { Repeat(early, 0) \o Repeat(total - early, TickMs) :
      <<total, early>> \in { pair \in PriorTotals \X (0..MAX_REQUESTS_PER_WINDOW) :
                               pair[2] <= pair[1] /\ pair[2] \in {0, MaxSpare, pair[1]} } }

InitGate ==
  /\ feed = << >>
  /\ InitHandler
  /\ PagesIdle
  /\ UiIdle
  /\ InitKit
  /\ CallsIdle
  /\ now = TickMs
  /\ requestLog \in [Clients -> PriorLogs]
  /\ admitted = requestLog
  /\ handlers = [h \in Handlers |-> IdleHandler]
  /\ arrivals = 0

\* Date.now() moves on.
Tick ==
  /\ now < MaxTicks * TickMs
  /\ now' = now + TickMs
  /\ UNCHANGED << requestLog, admitted, handlers, arrivals, handlerVars, kitVars, callVars, pageVars, uiVars >>

\* lines 234-236: an OPTIONS request is answered before the limiter is asked.
Preflight(h) ==
  /\ handlers[h].pc = "idle"
  /\ arrivals < MaxArrivals
  /\ arrivals' = arrivals + 1
  /\ handlers' = [handlers EXCEPT ![h] = HandlerState("done", "", FALSE, 200, "", FALSE)]
  /\ UNCHANGED << now, requestLog, admitted, handlerVars, kitVars, callVars, pageVars, uiVars >>

\* lines 239-244 with 95-97: the limiter refuses the request; 429 is answered.
GateReject(h, headers) ==
  /\ handlers[h].pc = "idle"
  /\ arrivals < MaxArrivals
  /\ isRateLimited(requestLog, clientIpOf(headers), now)
  /\ arrivals' = arrivals + 1
  /\ requestLog' = requestLogRefused(requestLog, clientIpOf(headers), now)
  /\ handlers' = [handlers EXCEPT ![h] =
                    HandlerState(AfterLimitCheck(TRUE), clientIpOf(headers), TRUE, 429, "60", FALSE)]
  /\ UNCHANGED << now, admitted, handlerVars, kitVars, callVars, pageVars, uiVars >>

\* lines 239-240 with 98-101: the limiter records the request and lets it in.
GateAdmit(h, headers) ==
  /\ handlers[h].pc = "idle"
  /\ arrivals < MaxArrivals
  /\ ~isRateLimited(requestLog, clientIpOf(headers), now)
  /\ arrivals' = arrivals + 1
  /\ requestLog' = requestLogAfter(requestLog, clientIpOf(headers), now)
  /\ admitted' = [admitted EXCEPT ![clientIpOf(headers)] = Append(@, now)]
  /\ handlers' = [handlers EXCEPT ![h] =
                    HandlerState(AfterLimitCheck(FALSE), clientIpOf(headers), FALSE, 0, "", FALSE)]
  /\ UNCHANGED << now, handlerVars, kitVars, callVars, pageVars, uiVars >>

\* lines 246-252: the body lacks baseKeywords or productType.
BadRequest(h) ==
  /\ handlers[h].pc = "admitted"
  /\ handlers' = [handlers EXCEPT ![h].pc = "done", ![h].status = 400]
  /\ UNCHANGED << now, requestLog, admitted, arrivals, handlerVars, kitVars, callVars, pageVars, uiVars >>

\* lines 258-260: fetchAmazonApi is called.
Acquire(h) ==
  /\ handlers[h].pc = "admitted"
  /\ handlers' = [handlers EXCEPT ![h].pc = "selecting", ![h].acquired = TRUE]
  /\ UNCHANGED << now, requestLog, admitted, arrivals, handlerVars, kitVars, callVars, pageVars, uiVars >>

\* lines 266-477: the candidates are filtered, the tiers chosen and answered.
Answer(h) ==
  /\ handlers[h].pc = "selecting"
  /\ handlers' = [handlers EXCEPT ![h].pc = "done",
                                  ![h].status = IF @ = 0 THEN 200 ELSE @]
  /\ UNCHANGED << now, requestLog, admitted, arrivals, handlerVars, kitVars, callVars, pageVars, uiVars >>

\* The response is sent; the invocation is over.
Finish(h) ==
  /\ handlers[h].pc = "done"
  /\ handlers' = [handlers EXCEPT ![h] = IdleHandler]
  /\ UNCHANGED << now, requestLog, admitted, arrivals, handlerVars, kitVars, callVars, pageVars, uiVars >>

NextGate ==
  \/ Tick
  \/ \E h \in Handlers : Preflight(h)
  \/ \E h \in Handlers, headers \in RequestHeaders : GateReject(h, headers)
  \/ \E h \in Handlers, headers \in RequestHeaders : GateAdmit(h, headers)
  \/ \E h \in Handlers : BadRequest(h)
  \/ \E h \in Handlers : Acquire(h)
  \/ \E h \in Handlers : Answer(h)
  \/ \E h \in Handlers : Finish(h)

SpecGate == InitGate /\ [][NextGate]_vars

(***************************************************************************)
(* The handler on records as the acquisition service may send them         *)
(***************************************************************************)

AcmeSaw == Listing("Acme Saw", "$10.00", "A", "4.5", "50")

SonySaw == Listing("Sony Saw", "$40.00", "C", "4.8", "100")

\* Longest list of raw records.
MaxRawPool == 3

RawPools == UNION {[1..n -> RawCatalog \cup {AcmeSaw, SonySaw}] : n \in 1..MaxRawPool}

InitRaw ==
  /\ feed \in RawPools
  /\ InitHandler
  /\ PagesIdle
  /\ UiIdle
  /\ InitKit
  /\ GateIdle
  /\ CallsIdle

SpecRaw == InitRaw /\ [][Next]_vars

(***************************************************************************)
(* formatProduct on its own, part_001 lines 147-184 and part_002 147-183   *)
(***************************************************************************)

FormatVersions == {"part_001", "part_002"}

FormatCalls == [apiProduct : FilterSamples, tier : Tiers, version : FormatVersions]

InitFilter ==
  /\ feed = << >>
  /\ InitHandler
  /\ PagesIdle
  /\ UiIdle
  /\ InitKit
  /\ GateIdle
  /\ priceText = ""
  /\ priceValue = None
  /\ formatCall \in {Some(c) : c \in FormatCalls}
  /\ formatResult = None

\* part_001 lines 147-184
FormatPart001 ==
  /\ formatResult = None
  /\ Get(formatCall).version = "part_001"
  /\ formatResult' = Some(formatProduct(Get(formatCall).apiProduct, Get(formatCall).tier, ""))
  /\ UNCHANGED << formatCall, priceText, priceValue, handlerVars, kitVars, gateVars, pageVars, uiVars >>

\* part_002 lines 147-183
FormatPart002 ==
  /\ formatResult = None
  /\ Get(formatCall).version = "part_002"
  /\ formatResult' =
       Some(formatProductPart002(Get(formatCall).apiProduct, Get(formatCall).tier, ""))
  /\ UNCHANGED << formatCall, priceText, priceValue, handlerVars, kitVars, gateVars, pageVars, uiVars >>

NextFilter ==
  \/ FormatPart001
  \/ FormatPart002

SpecFilter == InitFilter /\ [][NextFilter]_vars

(***************************************************************************)
(* parsePrice on its own, part_001 lines 186-194                           *)
(***************************************************************************)

\* An amount as a listing writes it, with its value in cents.
Amount(text, cents) == [text |-> text, cents |-> cents]

Amounts ==
  { Amount("5", 500), Amount("0.50", 50), Amount("19.99", 1999), Amount("299", 29900),
    Amount("999.99", 99999), Amount("1,299.99", 129999), Amount("2,500", 250000),
    Amount("12,345.67", 1234567), Amount("1299.99", 129999), Amount("1299", 129900) }

PricePrefixes == {"", "from "}

CurrencySigns == {"", "$"}

\* Nothing, the upper end of a range, or a unit.
PriceSuffixes == {"", " - $29.99", " each"}

\* A price text with the value of its amount (of the lower one for a range).
PriceSample(prefix, sign, amount, suffix) ==
  [text |-> prefix \o sign \o amount.text \o suffix,
   value |-> amount.cents * (Scale \div 100)]

PriceSamples ==
  { PriceSample(prefix, sign, amount, suffix) :
      prefix \in PricePrefixes, sign \in CurrencySigns,
      amount \in Amounts, suffix \in PriceSuffixes }

\* Price texts without an amount.
AmountlessTexts == {"", "N/A", "Free", "$", "Currently unavailable"}

InitPrice ==
  /\ feed = << >>
  /\ InitHandler
  /\ PagesIdle
  /\ UiIdle
  /\ InitKit
  /\ GateIdle
  /\ priceText \in {sample.text : sample \in PriceSamples} \cup AmountlessTexts
  /\ priceValue = None
  /\ formatCall = None
  /\ formatResult = None

\* part_001 lines 186-194
ParsePrice ==
  /\ priceValue = None
  /\ priceValue' = Some(parsePrice(priceText))
  /\ UNCHANGED << priceText, formatCall, formatResult, handlerVars, kitVars, gateVars, pageVars, uiVars >>

NextPrice == ParsePrice

SpecPrice == InitPrice /\ [][NextPrice]_vars

(***************************************************************************)
(* The acquisition by pages, part_001 lines 104-145 and 257-270            *)
(***************************************************************************)

\* What fetch gets from the search API for one page: a network error, or an
\* answer with a status, whose body has the products array or has none.
Reply(kind, status, records) == [kind |-> kind, status |-> status, products |-> records]

Thrown(message) == [threw |-> TRUE, message |-> message, products |-> << >>]

Returned(records) == [threw |-> FALSE, message |-> "", products |-> records]

\* lines 130-137: the error of an answer that is not OK
StatusError(status) ==
  IF status = 401
  THEN "Amazon API request failed: Authentication or permission error (status 401). Check API key."
  ELSE IF status = 429
  THEN "Amazon API request failed: Rate limit exceeded with the third-party API (status 429)."
  ELSE "Amazon API request failed with status 500."

\* lines 104-145
fetchAmazonApi(env, page) ==
  IF env.rapidApiKey = ""
  THEN Thrown("RAPIDAPI_KEY is not configured in environment variables.")
  ELSE IF env.reply[page].kind = "network"
  THEN Thrown("Network error connecting to Amazon search API. ")
  ELSE IF env.reply[page].status # 200
  THEN Thrown(StatusError(env.reply[page].status))
  ELSE IF env.reply[page].kind = "products"
  THEN Returned(env.reply[page].products)
  ELSE Returned(<< >>)

\* line 261: fewer records on page 1 than this and page 2 is asked for
Page1Enough == 15

\* line 261: no page 2 once this many candidates are held
CandidatesEnough == 25

\* line 261 without the test for an empty page 1
NeedsPage2WhenShort(page1, candidates) == Len(page1) < Page1Enough

\* line 261
NeedsPage2(page1, candidates) ==
  Len(page1) > 0 /\ Len(page1) < Page1Enough /\ Len(candidates) < CandidatesEnough

\* Four listings the search API pages through.
Shelf ==
  << CHOOSE p \in Catalog : p.product_title = "Acme Saw",
     CHOOSE p \in Catalog : p.product_title = "Bosch Saw",
     CHOOSE p \in Catalog : p.product_title = "Sony Saw",
     CHOOSE p \in Catalog : p.product_title = "Folding Saw" >>

\* A page of n records, the shelf taken in turn from the given place.
PageRecords(n, from) == [i \in 1..n |-> Shelf[((from + i - 1) % Len(Shelf)) + 1]]

\* Records on page 2, when it has any.
MaxPage2 == 2

Page1Lengths == {0, 1, Page1Enough - 1, Page1Enough}

Page2Lengths == {0, MaxPage2}

OtherReplies ==
  { Reply("network", 0, << >>), Reply("noArray", 200, << >>) }
    \cup { Reply("products", status, << >>) : status \in {401, 429, 500} }

Page1Replies == { Reply("products", 200, PageRecords(n, 0)) : n \in Page1Lengths } \cup OtherReplies

Page2Replies == { Reply("products", 200, PageRecords(n, 1)) : n \in Page2Lengths } \cup OtherReplies

InitPages ==
  /\ feed = << >>
  /\ InitHandler
  /\ UiIdle
  /\ InitKit
  /\ GateIdle
  /\ CallsIdle
  /\ service \in [rapidApiKey : {"", "k3y"}, reply : Page1Replies \X Page2Replies]
  /\ page1Products = << >>
  /\ requested = << >>

\* lines 259-260 and 264: page 1 arrives; its records are the first candidates.
FetchPage1 ==
  /\ pc = "fetch"
  /\ ~fetchAmazonApi(service, 1).threw
  /\ page1Products' = fetchAmazonApi(service, 1).products
  /\ candidateProducts' = candidateProducts \o page1Products'
  /\ requested' = Append(requested, 1)
  /\ pc' = IF NeedsPage2(page1Products', candidateProducts') THEN "page2" ELSE "filter"
  /\ UNCHANGED << feed, suitableRawProducts, usedProductLinks, essentialProduct,
                  premiumProduct, luxuryProduct, essentialBrand, response, prev,
                  service, kitVars, gateVars, callVars, uiVars >>

\* lines 262-263: page 2 arrives; its records follow those of page 1.
FetchPage2 ==
  /\ pc = "page2"
  /\ ~fetchAmazonApi(service, 2).threw
  /\ candidateProducts' = candidateProducts \o fetchAmazonApi(service, 2).products
  /\ requested' = Append(requested, 2)
  /\ pc' = "filter"
  /\ UNCHANGED << feed, suitableRawProducts, usedProductLinks, essentialProduct,
                  premiumProduct, luxuryProduct, essentialBrand, response, prev,
                  service, page1Products, kitVars, gateVars, callVars, uiVars >>

\* lines 265-270: fetchAmazonApi throws for the page asked for; the handler
\* answers with an empty list.
FetchThrows ==
  /\ pc \in {"fetch", "page2"}
  /\ LET page == IF pc = "fetch" THEN 1 ELSE 2
     IN /\ fetchAmazonApi(service, page).threw
        /\ requested' = Append(requested, page)
  /\ response' = EmptyList
  /\ pc' = "done"
  /\ UNCHANGED << feed, tierVars, prev, service, page1Products, kitVars, gateVars, callVars, uiVars >>

NextPages ==
  \/ Receive
  \/ FetchPage1
  \/ FetchPage2
  \/ FetchThrows
  \/ FilterNothing
  \/ Filter
  \/ PickEssential
  \/ PickLuxury
  \/ PickPremium
  \/ Respond

SpecPages == InitPages /\ [][NextPages]_vars

(***************************************************************************)
(* The search form and the pages, src/components/SearchForm.tsx lines      *)
(* 85-112 and part_012 lines 17-29                                         *)
(***************************************************************************)

COOLDOWN_PERIOD == 2000

\* part_012 lines 17-29: the page PageContent renders
PageOf(loading, kit) ==
  IF loading THEN "loading" ELSE IF Len(kit) > 0 THEN "results" ELSE "search"

Page == PageOf(isLoading, products)

\* SearchForm.tsx line 24: the state of SearchForm lives while SearchPage is
\* rendered and starts at 0 with each mount.
FormStateAfter(pageBefore, pageAfter, state) ==
  IF pageAfter # "search" THEN None
  ELSE IF pageBefore = "search" THEN state
  ELSE Some(0)

\* ResultsPage.tsx line 293: the tab lives while ResultsPage is rendered and
\* starts at 'starterProducts' with each mount.
TabAfter(pageBefore, pageAfter, tab) ==
  IF pageAfter # "results" THEN None
  ELSE IF pageBefore = "results" THEN tab
  ELSE Some("starterProducts")

\* What the user may type.
Terms == {"", BaseKeywords, "sailing"}

\* Accepted submits in one run.
MaxSubmits == 2

\* SearchForm.tsx line 89
InCooldown(t, last) == t - last < COOLDOWN_PERIOD

\* SearchForm.tsx line 90, for the whole seconds left
WaitMessage(t, last) ==
  IF COOLDOWN_PERIOD - (t - last) > 1000 THEN "Please wait 2 seconds."
  ELSE "Please wait 1 seconds."

CountText == << "1", "2", "3", "4" >>

\* SearchForm.tsx lines 99-103: the error after searchAmazonProducts resolved
ErrorAfterResults(results, before) ==
  IF Len(results) = 0 THEN "No products found. Please try a different search term."
  ELSE IF Len(results) < 5
  THEN "Only " \o CountText[Len(results)] \o " products found. Try more general terms."
  ELSE before

\* SearchForm.tsx lines 99-103: the products after searchAmazonProducts resolved
ProductsAfterResults(results, before) ==
  IF Len(results) = 0 THEN before ELSE results

\* SearchForm.tsx lines 105-107
ErrorAfterRejection(msg) ==
  IF includes(msg, "429") THEN "High traffic. Please try again soon." ELSE msg

\* Date.now() when the page is loaded: long after the epoch.
PageLoadTime == 5 * COOLDOWN_PERIOD

\* The search page before anything is typed; no call of searchAmazonProducts
\* has begun.
InitSubmit ==
  /\ feed = << >>
  /\ InitHandler
  /\ PagesIdle
  /\ UiIdle
  /\ CallsIdle
  /\ now = PageLoadTime
  /\ requestLog = [c \in Clients |-> << >>]
  /\ admitted = [c \in Clients |-> << >>]
  /\ handlers = [h \in Handlers |-> IdleHandler]
  /\ arrivals = 0
  /\ kitPc = "unstarted"
  /\ productTypeDetails = << >>
  /\ resolvedGroups = << >>
  /\ kitResult = None

\* SearchForm.tsx handleSearchTermChange: the user types.
Type(term) ==
  /\ Page = "search"
  /\ term # searchTerm
  /\ searchTerm' = term
  /\ UNCHANGED << products, isLoading, error, learningResources, isLearningResourcesLoading,
                  learningResourcesError, lastSearchTime, activeTab, searching,
                  resourceFetches, fetchCount, autoFetches, effectsDue, submits, lastAccepted,
                  handlerVars, kitVars, gateVars, callVars, pageVars >>

\* SearchForm.tsx lines 86-92: a submit with nothing typed, or within the
\* cooldown of the form, starts no search.
SubmitRefused ==
  /\ Page = "search"
  /\ trim(searchTerm) = "" \/ InCooldown(now, Get(lastSearchTime))
  /\ error' = IF trim(searchTerm) = "" THEN error
              ELSE WaitMessage(now, Get(lastSearchTime))
  /\ UNCHANGED << searchTerm, products, isLoading, learningResources,
                  isLearningResourcesLoading, learningResourcesError, lastSearchTime,
                  activeTab, searching, resourceFetches, fetchCount, autoFetches, effectsDue, submits,
                  lastAccepted, handlerVars, kitVars, gateVars, callVars, pageVars >>

\* SearchForm.tsx lines 86-98: the submit is accepted; searchAmazonProducts is
\* called, and PageContent renders LoadingPage in place of the form.
SubmitAccept ==
  /\ Page = "search"
  /\ submits < MaxSubmits
  /\ trim(searchTerm) # ""
  /\ ~InCooldown(now, Get(lastSearchTime))
  /\ isLoading' = TRUE
  /\ error' = ""
  /\ products' = << >>
  /\ lastSearchTime' = FormStateAfter(Page, PageOf(isLoading', products'), Some(now))
  /\ activeTab' = TabAfter(Page, PageOf(isLoading', products'), activeTab)
  /\ searching' = Some(searchTerm)
  /\ kitPc' = "idle"
  /\ productTypeDetails' = << >>
  /\ resolvedGroups' = << >>
  /\ kitResult' = None
  /\ submits' = submits + 1
  /\ lastAccepted' = Some(now)
  /\ UNCHANGED << searchTerm, learningResources, isLearningResourcesLoading,
                  learningResourcesError, resourceFetches, fetchCount, autoFetches, effectsDue,
                  handlerVars, gateVars, callVars, pageVars >>

\* SearchForm.tsx lines 98-103 and 109-111: searchAmazonProducts resolved.
SubmitResolves ==
  /\ IsSome(searching)
  /\ kitPc = "done"
  /\ Get(kitResult).ok
  /\ error' = ErrorAfterResults(Get(kitResult).groups, error)
  /\ products' = ProductsAfterResults(Get(kitResult).groups, products)
  /\ isLoading' = FALSE
  /\ lastSearchTime' = FormStateAfter(Page, PageOf(isLoading', products'), lastSearchTime)
  /\ activeTab' = TabAfter(Page, PageOf(isLoading', products'), activeTab)
  /\ effectsDue' = (PageOf(isLoading', products') = "results")
  /\ autoFetches' = 0
  /\ searching' = None
  /\ kitPc' = "returned"
  /\ UNCHANGED << searchTerm, learningResources, isLearningResourcesLoading,
                  learningResourcesError, resourceFetches, fetchCount, submits, lastAccepted,
                  productTypeDetails, resolvedGroups, kitResult,
                  handlerVars, gateVars, callVars, pageVars >>

\* SearchForm.tsx lines 104-111: searchAmazonProducts rejected.
SubmitRejects ==
  /\ IsSome(searching)
  /\ kitPc = "done"
  /\ ~Get(kitResult).ok
  /\ error' = ErrorAfterRejection(Get(kitResult).error)
  /\ isLoading' = FALSE
  /\ lastSearchTime' = FormStateAfter(Page, PageOf(isLoading', products), lastSearchTime)
  /\ activeTab' = TabAfter(Page, PageOf(isLoading', products), activeTab)
  /\ effectsDue' = (PageOf(isLoading', products) = "results")
  /\ autoFetches' = 0
  /\ searching' = None
  /\ kitPc' = "returned"
  /\ UNCHANGED << searchTerm, products, learningResources, isLearningResourcesLoading,
                  learningResourcesError, resourceFetches, fetchCount, submits, lastAccepted,
                  productTypeDetails, resolvedGroups, kitResult,
                  handlerVars, gateVars, callVars, pageVars >>

\* The form with searchAmazonProducts step by step.
NextSubmit ==
  \/ \E term \in Terms : Type(term)
  \/ SubmitRefused
  \/ SubmitAccept
  \/ KitTypesFail
  \/ KitNoTypes
  \/ KitStart
  \/ \E i \in 1..Len(resolvedGroups) : FetchNotOk(i)
  \/ \E i \in 1..Len(resolvedGroups) : FetchNetworkError(i)
  \/ \E i \in 1..Len(resolvedGroups) : FetchProducts(i)
  \/ KitJoin
  \/ KitJoinEmpty
  \/ SubmitResolves
  \/ SubmitRejects

SpecSubmit == InitSubmit /\ [][NextSubmit]_vars

(***************************************************************************)
(* The results page and its learning resources, ResultsPage.tsx lines      *)
(* 293-350 and 518-535, with searchAmazonProducts as one step              *)
(***************************************************************************)

\* searchLearningResources calls in one run.
MaxFetches == 3

\* Steps of the clock in one run.
MaxElapse == 2

ClockStep == COOLDOWN_PERIOD \div 2

\* A group of the kit.
SampleGroup ==
  [productTypeConcept |-> ProductType, explanation |-> "Cuts boards to length.",
   tiers |-> << >>]

KitOf(n) == [i \in 1..n |-> SampleGroup]

\* What searchAmazonProducts settles with: a short kit, a kit of five groups,
\* or a rejection.
SearchOutcomes ==
  { KitResolved(KitOf(1)), KitResolved(KitOf(5)), KitRejected(NoProductsMessage) }

\* What get-learning-resources holds for an activity.
ResourcesFor(activity) ==
  << [title |-> "Getting started with " \o activity, type |-> "video"] >>

\* api.ts lines 436-448: the error of a failed request for an activity
ResourcesErrorFor(activity) ==
  "Unable to fetch learning resources for " \o activity
    \o ". Details: API call failed with status 500"

\* ResultsPage.tsx line 296
Effect1Fires ==
  /\ ~isLoading
  /\ Len(products) > 0
  /\ searchTerm # ""
  /\ Len(learningResources) = 0
  /\ learningResourcesError = ""
  /\ ~isLearningResourcesLoading

\* ResultsPage.tsx line 325
Effect2Fires ==
  /\ activeTab = Some("learningResources")
  /\ searchTerm # ""
  /\ Len(learningResources) = 0
  /\ learningResourcesError = ""
  /\ ~isLearningResourcesLoading

\* The calls of fetchResources the two effects make after one render.
EffectFetches == (IF Effect1Fires THEN 1 ELSE 0) + (IF Effect2Fires THEN 1 ELSE 0)

\* A call of searchLearningResources with the searchTerm of the render.
ResourceFetch(id, activity) == [id |-> id, activity |-> activity]

InitApp == InitSubmit

\* Date.now() moves on.
Elapse ==
  /\ now < PageLoadTime + MaxElapse * ClockStep
  /\ now' = now + ClockStep
  /\ UNCHANGED << requestLog, admitted, handlers, arrivals, handlerVars, kitVars, callVars,
                  pageVars, uiVars >>

\* api.ts lines 61-147 as one step: searchAmazonProducts settles.
SearchSettles ==
  /\ IsSome(searching)
  /\ kitPc = "idle"
  /\ kitResult' \in SearchOutcomes
  /\ kitPc' = "done"
  /\ UNCHANGED << productTypeDetails, resolvedGroups, handlerVars, gateVars, callVars,
                  pageVars, uiVars >>

\* ResultsPage.tsx lines 295-341: after a render of ResultsPage both effects
\* test their conditions on the values of that render and call fetchResources.
RunEffects ==
  /\ effectsDue
  /\ fetchCount + EffectFetches <= MaxFetches
  /\ resourceFetches' =
       resourceFetches \cup
         { ResourceFetch(fetchCount + k, searchTerm) : k \in 1..EffectFetches }
  /\ fetchCount' = fetchCount + EffectFetches
  /\ autoFetches' = autoFetches + EffectFetches
  /\ isLearningResourcesLoading' = (isLearningResourcesLoading \/ EffectFetches > 0)
  /\ effectsDue' = FALSE
  /\ UNCHANGED << searchTerm, products, isLoading, error, learningResources,
                  learningResourcesError, lastSearchTime, activeTab, searching, submits,
                  lastAccepted, handlerVars, kitVars, gateVars, callVars, pageVars >>

\* ResultsPage.tsx lines 439 and 443: a tab is chosen.
SelectTab(tab) ==
  /\ Page = "results"
  /\ ~effectsDue
  /\ activeTab # Some(tab)
  /\ activeTab' = Some(tab)
  /\ effectsDue' = TRUE
  /\ UNCHANGED << contextVars, lastSearchTime, searching, resourceFetches, fetchCount,
                  autoFetches, submits, lastAccepted, handlerVars, kitVars, gateVars,
                  callVars, pageVars >>

\* ResultsPage.tsx lines 300-301 and 307-309: searchLearningResources resolved.
ResourcesResolve(f) ==
  /\ f \in resourceFetches
  /\ ~effectsDue
  /\ learningResources' \in {<< >>, ResourcesFor(f.activity)}
  /\ isLearningResourcesLoading' = FALSE
  /\ resourceFetches' = resourceFetches \ {f}
  /\ effectsDue' = (Page = "results")
  /\ UNCHANGED << searchTerm, products, isLoading, error, learningResourcesError,
                  lastSearchTime, activeTab, searching, fetchCount, autoFetches, submits,
                  lastAccepted, handlerVars, kitVars, gateVars, callVars, pageVars >>

\* ResultsPage.tsx lines 302-309: searchLearningResources rejected.
ResourcesReject(f) ==
  /\ f \in resourceFetches
  /\ ~effectsDue
  /\ learningResourcesError' = ResourcesErrorFor(f.activity)
  /\ isLearningResourcesLoading' = FALSE
  /\ resourceFetches' = resourceFetches \ {f}
  /\ effectsDue' = (Page = "results")
  /\ UNCHANGED << searchTerm, products, isLoading, error, learningResources,
                  lastSearchTime, activeTab, searching, fetchCount, autoFetches, submits,
                  lastAccepted, handlerVars, kitVars, gateVars, callVars, pageVars >>

\* ResultsPage.tsx lines 518-535: Try Again under the error.
TryAgain ==
  /\ Page = "results"
  /\ ~effectsDue
  /\ activeTab = Some("learningResources")
  /\ learningResourcesError # ""
  /\ ~isLearningResourcesLoading
  /\ fetchCount < MaxFetches
  /\ learningResources' = << >>
  /\ learningResourcesError' = ""
  /\ isLearningResourcesLoading' = TRUE
  /\ resourceFetches' = resourceFetches \cup {ResourceFetch(fetchCount + 1, searchTerm)}
  /\ fetchCount' = fetchCount + 1
  /\ autoFetches' = 0
  /\ effectsDue' = TRUE
  /\ UNCHANGED << searchTerm, products, isLoading, error, lastSearchTime, activeTab,
                  searching, submits, lastAccepted, handlerVars, kitVars, gateVars,
                  callVars, pageVars >>

\* ResultsPage.tsx lines 344-350: Start Over; PageContent renders SearchPage.
handleStartOver ==
  /\ Page = "results"
  /\ ~effectsDue
  /\ products' = << >>
  /\ searchTerm' = ""
  /\ learningResources' = << >>
  /\ learningResourcesError' = ""
  /\ activeTab' = TabAfter(Page, PageOf(isLoading, products'), Some("starterProducts"))
  /\ lastSearchTime' = FormStateAfter(Page, PageOf(isLoading, products'), lastSearchTime)
  /\ UNCHANGED << isLoading, error, isLearningResourcesLoading, searching, resourceFetches,
                  fetchCount, autoFetches, effectsDue, submits, lastAccepted, handlerVars,
                  kitVars, gateVars, callVars, pageVars >>

NextApp ==
  \/ \E term \in Terms : Type(term)
  \/ SubmitRefused
  \/ SubmitAccept
  \/ SearchSettles
  \/ SubmitResolves
  \/ SubmitRejects
  \/ Elapse
  \/ RunEffects
  \/ \E tab \in {"starterProducts", "learningResources"} : SelectTab(tab)
  \/ \E f \in resourceFetches : ResourcesResolve(f)
  \/ \E f \in resourceFetches : ResourcesReject(f)
  \/ TryAgain
  \/ handleStartOver

SpecApp == InitApp /\ [][NextApp]_vars

\* searchAmazonProducts settles, and handleSubmit goes on when it has.
SpecAppLive ==
  /\ SpecApp
  /\ WF_vars(SearchSettles)
  /\ WF_vars(SubmitResolves)
  /\ WF_vars(SubmitRejects)

(***************************************************************************)
(* Properties of the amazon-search responses                               *)
(***************************************************************************)

\* The candidates that pass the filter, by price.
Survivors == SuitableRawProducts(candidateProducts)

\* C1: in every response, for each pair of tiers that are both present, the price
\* of the lower tier is at most the price of the higher tier:
\* essential <= premium <= luxury.
C1_TierPricesOrdered ==
  \A i, j \in 1..Len(ResponseBody) :
     tierRank[ResponseBody[i].tier] < tierRank[ResponseBody[j].tier]
       => parsedPrice[ResponseBody[i].price] <= parsedPrice[ResponseBody[j].price]

\* C2: no two records of one response have the same link.
C2_LinksDistinct ==
  \A i, j \in 1..Len(ResponseBody) :
     i # j => ResponseBody[i].link # ResponseBody[j].link

\* The groups searchAmazonProducts resolved with.
KitGroups == IF IsSome(kitResult) THEN Get(kitResult).groups ELSE << >>

GroupLinks(group) == {group.tiers[t].link : t \in DOMAIN group.tiers}

\* C3: in the kit returned by the grouped searchAmazonProducts, no product link
\* appears in more than one category group.
C3_NoLinkInTwoGroups ==
  \A i, j \in 1..Len(KitGroups) :
     i # j => GroupLinks(KitGroups[i]) \cap GroupLinks(KitGroups[j]) = {}

\* C4: no record of a response has a lower-cased title that contains an exclusion
\* keyword or matches a bulk-pack pattern.
C4_NoExcludedOrBulkTitle ==
  \A i \in 1..Len(ResponseBody) :
     /\ ~titleExcluded[ResponseBody[i].name]
     /\ ~titleBulk[ResponseBody[i].name]

\* C5: when the acquisition yields no candidates, or no candidate passes the
\* filter, the response is the empty list with status 200.
C5_NoCandidatesEmptySuccess ==
  (pc = "done" /\ Survivors = << >>) => response = JsonResponse(200, << >>)

\* Candidates came back and none passed the filter.
C5_Witness ==
  /\ pc = "done"
  /\ candidateProducts # << >>
  /\ Survivors = << >>
  /\ response = JsonResponse(200, << >>)

\* C6: two requests with the same ordered candidate list are answered with the
\* same listing in each tier and the same tiers absent, the reason texts aside.
C6_SameTiersOnRepeat ==
  (pc = "done" /\ IsSome(prev) /\ Get(prev).candidates = candidateProducts)
    => TierView(ResponseBody) = Get(prev).tiers

\* The second of two requests with the same candidates is answered with three tiers.
C6_Witness ==
  /\ pc = "done"
  /\ IsSome(prev)
  /\ Get(prev).candidates = candidateProducts
  /\ Len(ResponseBody) = 3

\* C7: a response has at most three records, each tagged essential, premium or
\* luxury, and no two of them carry the same tier tag.
C7_AtMostOnePerTier ==
  /\ Len(ResponseBody) <= 3
  /\ \A i \in 1..Len(ResponseBody) : ResponseBody[i].tier \in Tiers
  /\ \A i, j \in 1..Len(ResponseBody) :
        i # j => ResponseBody[i].tier # ResponseBody[j].tier

\* Three records, two of them added by the backfill.
C7_Witness ==
  /\ pc = "done"
  /\ Len(ResponseBody) = 3
  /\ ~IsSome(premiumProduct)
  /\ ~IsSome(luxuryProduct)

\* C8: with exactly one candidate passing the filter the response has exactly one
\* record, tagged essential; with fewer than two it has at most one record and
\* status 200.
C8_SingleSurvivor ==
  pc = "done" =>
    /\ Len(Survivors) = 1 =>
         (Len(ResponseBody) = 1 /\ ResponseBody[1].tier = "essential")
    /\ Len(Survivors) < 2 =>
         (Len(ResponseBody) <= 1 /\ Get(response).status = 200)

\* Several candidates came back, one passed the filter and is the only record.
C8_Witness ==
  /\ pc = "done"
  /\ Len(candidateProducts) > 1
  /\ Len(Survivors) = 1
  /\ Len(ResponseBody) = 1
  /\ ResponseBody[1].tier = "essential"

MeetsEssentialBar(p) == Rating(p) >= Dec(3, 5) /\ Reviews(p) >= 10

MeetsPremiumBar(p) == Rating(p) >= Dec(3, 8) /\ Reviews(p) >= 15

MeetsLuxuryBar(p) == Rating(p) >= Dec(4, 0) /\ Reviews(p) >= 25

\* The record made from listing p carries the tier tag.
IsInTier(p, tier) ==
  \E i \in 1..Len(ResponseBody) :
     /\ ResponseBody[i].tier = tier
     /\ ResponseBody[i].name = p.product_title
     /\ ResponseBody[i].link = taggedLink[p.product_url]

\* Three candidates at three prices: the cheapest meets the essential bar, the most
\* expensive meets the luxury bar above 1.2 x the cheapest price, the middle one
\* meets no bar.
ThreeCandidateExample(s) ==
  /\ Len(candidateProducts) = 3
  /\ Len(s) = 3
  /\ PriceOf(s[1]) < PriceOf(s[2])
  /\ PriceOf(s[2]) < PriceOf(s[3])
  /\ MeetsEssentialBar(s[1])
  /\ MeetsLuxuryBar(s[3])
  /\ ~LeTimes1_2(PriceOf(s[3]), PriceOf(s[1]))
  /\ ~MeetsEssentialBar(s[2])
  /\ ~MeetsPremiumBar(s[2])
  /\ ~MeetsLuxuryBar(s[2])

ThreeCandidateOutcome(s) ==
  /\ Len(ResponseBody) = 2
  /\ IsInTier(s[1], "essential")
  /\ IsInTier(s[3], "luxury")
  /\ \A tier \in Tiers : ~IsInTier(s[2], tier)

\* C9: for such a pool of three candidates the response has exactly two tiers,
\* essential = the cheapest and luxury = the most expensive, and the middle
\* candidate is in no tier.
C9_ThreeCandidateExample ==
  (pc = "done" /\ ThreeCandidateExample(Survivors)) => ThreeCandidateOutcome(Survivors)

\* The links used before the premium pick.
UsedBeforePremium == AddLink(AddLink({}, essentialProduct), luxuryProduct)

\* Unused and eligible for the premium tier.
EligibleForPremium(p) ==
  /\ ~IsUsed(p, UsedBeforePremium)
  /\ MeetsPremiumBar(p)
  /\ PremiumPriceOk(p, essentialProduct, luxuryProduct)

SharesAnchorBrand(p) ==
  IsSome(essentialBrand) /\ IsSome(BrandOf(p)) /\ BrandOf(p) = essentialBrand

\* Only the premium tier is unfilled, and p and q are unused candidates eligible
\* for it at one price, p rated higher than q.
TiedPair(p, q) ==
  /\ IsSome(essentialProduct)
  /\ IsSome(luxuryProduct)
  /\ EligibleForPremium(p)
  /\ EligibleForPremium(q)
  /\ PriceOf(p) = PriceOf(q)
  /\ Rating(p) > Rating(q)

\* C10, as stated: when only one tier is unfilled and two unused candidates
\* eligible for it have the same price and different ratings, the tier is filled
\* and not with the lower-rated of the two, whatever their brands.
C10_HigherRatedWhateverBrand ==
  pc = "respond" =>
    \A i, j \in 1..Len(suitableRawProducts) :
       TiedPair(suitableRawProducts[i], suitableRawProducts[j])
         => (IsSome(premiumProduct) /\ Get(premiumProduct) # suitableRawProducts[j])

\* C10, amended: the same, unless the lower-rated of the two shares the brand of
\* the essential listing and the higher-rated one does not.
C10_HigherRatedUnlessAnchorBrand ==
  pc = "respond" =>
    \A i, j \in 1..Len(suitableRawProducts) :
       (/\ TiedPair(suitableRawProducts[i], suitableRawProducts[j])
        /\ (SharesAnchorBrand(suitableRawProducts[j])
              => SharesAnchorBrand(suitableRawProducts[i])))
         => (IsSome(premiumProduct) /\ Get(premiumProduct) # suitableRawProducts[j])

\* The premium tier went to the higher-rated of two such candidates.
C10_Witness ==
  /\ pc = "respond"
  /\ \E i, j \in 1..Len(suitableRawProducts) :
        /\ TiedPair(suitableRawProducts[i], suitableRawProducts[j])
        /\ (SharesAnchorBrand(suitableRawProducts[j])
              => SharesAnchorBrand(suitableRawProducts[i]))
        /\ premiumProduct = Some(suitableRawProducts[i])

(***************************************************************************)
(* Properties of the rate limiter                                          *)
(***************************************************************************)

Instants == { k * TickMs : k \in 0..MaxTicks }

\* The requests of a client the limiter admitted with a timestamp in
\* (t - RATE_LIMIT_WINDOW, t].
AdmittedIn(clientIp, t) ==
  Len(SelectSeq(admitted[clientIp],
                LAMBDA timestamp : t - RATE_LIMIT_WINDOW < timestamp /\ timestamp <= t))

\* C11: for every client and every instant t, at most 30 requests were
\* admitted with timestamps in (t - 60000, t], however the requests under way
\* interleave, and a request is admitted only when fewer than 30 of its client
\* were admitted in the last 60000 ms.
C11_AtMostThirtyPerWindow ==
  /\ [](\A clientIp \in Clients, t \in Instants :
          AdmittedIn(clientIp, t) <= MAX_REQUESTS_PER_WINDOW)
  /\ [][\A clientIp \in Clients :
          admitted'[clientIp] # admitted[clientIp]
            => AdmittedIn(clientIp, now) < MAX_REQUESTS_PER_WINDOW]_vars

\* A request was refused while its client had 30 admitted in the window, and
\* another request is under way at the same time.
C11_Witness ==
  \E h \in Handlers, other \in Handlers :
    /\ h # other
    /\ handlers[h].limited
    /\ AdmittedIn(handlers[h].clientIp, now) = MAX_REQUESTS_PER_WINDOW
    /\ handlers[other].pc \in {"admitted", "selecting"}
    /\ handlers[other].clientIp = handlers[h].clientIp

\* C12: a request the limiter refused is answered with status 429 and a
\* Retry-After hint, and fetchAmazonApi, the filtering and the tier selection
\* are never started for it.
C12_RejectedNeverAcquires ==
  \A h \in Handlers :
    handlers[h].limited =>
      /\ handlers[h].status = 429
      /\ handlers[h].retryAfter = "60"
      /\ ~handlers[h].acquired
      /\ handlers[h].pc \notin {"admitted", "selecting"}

\* One request has been refused and answered while an admitted one has had
\* its candidates acquired.
C12_Witness ==
  \E h \in Handlers, other \in Handlers :
    /\ handlers[h].limited
    /\ handlers[h].pc = "done"
    /\ handlers[other].acquired
    /\ handlers[other].status = 200

(***************************************************************************)
(* Properties of searchAmazonProducts                                      *)
(***************************************************************************)

KitSettled == kitPc = "done" /\ resolvedGroups # << >>

SomeRequestFailed == \E i \in 1..Len(resolvedGroups) : resolvedGroups[i].failed

WithTiers == { i \in 1..Len(resolvedGroups) : IsSome(resolvedGroups[i].group) }

\* Every category whose request succeeded with a tier is in the kit, in the
\* order of the product types, and nothing else is.
KitHoldsEverySuccess ==
  /\ Get(kitResult).ok
  /\ Len(Get(kitResult).groups) = Cardinality(WithTiers)
  /\ \A i \in WithTiers, j \in WithTiers :
       i < j =>
         \E k \in 1..Len(Get(kitResult).groups), l \in 1..Len(Get(kitResult).groups) :
           /\ k < l
           /\ Get(kitResult).groups[k] = Get(resolvedGroups[i].group)
           /\ Get(kitResult).groups[l] = Get(resolvedGroups[j].group)
  /\ \A i \in WithTiers :
       \E k \in 1..Len(Get(kitResult).groups) :
         Get(kitResult).groups[k] = Get(resolvedGroups[i].group)

\* C13 as stated: when the request of a category fails, the kit still holds
\* every category that succeeded with a tier, and searchAmazonProducts does
\* not reject.
C13_FailureNeverRejects ==
  (KitSettled /\ SomeRequestFailed) => KitHoldsEverySuccess

\* C13 amended: when the request of a category fails and another category
\* succeeded with a tier, searchAmazonProducts resolves with every category
\* that succeeded with a tier; when no category is left with a tier it rejects.
C13_FailureIsolated ==
  /\ (KitSettled /\ SomeRequestFailed /\ WithTiers # {}) => KitHoldsEverySuccess
  /\ (KitSettled /\ WithTiers = {}) => ~Get(kitResult).ok

\* The first category failed, the second one succeeded and is the kit.
C13_Witness ==
  /\ KitSettled
  /\ Len(resolvedGroups) = 2
  /\ resolvedGroups[1].failed
  /\ IsSome(resolvedGroups[2].group)
  /\ Get(kitResult).ok
  /\ Get(kitResult).groups = resolvedGroups[2].group

(***************************************************************************)
(* Properties of the Candidate Filter                                      *)
(***************************************************************************)

\* The url is one of the marketplace: its host is amazon.com or a host below it.
IsMarketplaceUrl(url) ==
  /\ IsSome(ParseUrl(url))
  /\ \/ Get(ParseUrl(url)).hostname = "amazon.com"
     \/ endsWith(Get(ParseUrl(url)).hostname, ".amazon.com")

fromMarketplace == [u \in UrlTexts |-> IsMarketplaceUrl(u)]

\* A field is missing or the url is not of the marketplace.
IsStructurallyInvalid(p) ==
  \/ p.product_title = ""
  \/ p.product_photo = ""
  \/ p.product_price = ""
  \/ p.product_url = ""
  \/ ~fromMarketplace[p.product_url]

\* The tier record was made from the raw record.
IsRecordOf(r, p) ==
  /\ r.link = taggedLink[p.product_url]
  /\ r.name = p.product_title
  /\ r.image = p.product_photo
  /\ r.price = p.product_price

\* C14: a raw record with a missing title, image, price or url, or with a url
\* that is not of amazon.com, is in no tier of the response, and the response
\* is no error.
C14_InvalidRecordsDropped ==
  IsSome(response) =>
    /\ Get(response).status = 200
    /\ \A i \in 1..Len(candidateProducts), k \in 1..Len(ResponseBody) :
         IsStructurallyInvalid(candidateProducts[i])
           => ~IsRecordOf(ResponseBody[k], candidateProducts[i])

FormatReturned == IsSome(formatResult)

FormatArgument == Get(formatCall).apiProduct

RatingBelowLow(p) ==
  parsedRating[p.product_star_rating] # NaN /\ parsedRating[p.product_star_rating] < 3 * Scale

ReviewsBelowLow(p) == parsedReviews[p.product_num_ratings] < 5

\* C15: formatProduct rejects a listing for its quality only when the rating is
\* below 3.0 and the review count is below 5; a listing that is complete, named
\* without exclusion keyword, and not low on both counts, is returned.
C15_RejectsOnlyWhenBothLow ==
  (FormatReturned /\ ~IsRejectedBeforeQuality(FormatArgument))
    => (Get(formatResult) = None
          <=> (RatingBelowLow(FormatArgument) /\ ReviewsBelowLow(FormatArgument)))

(***************************************************************************)
(* Properties of the Price Normalizer                                      *)
(***************************************************************************)

\* C16: parsePrice returns +Infinity for a text that is empty or holds no
\* amount, and otherwise the value of the amount in the text, of the lower one
\* for a range, whether the amount is written with a currency sign, with
\* thousands separators, or as 1000 or more without a separator.
C16_ParsePriceValue ==
  IsSome(priceValue) =>
    /\ priceText \in AmountlessTexts => Get(priceValue) = Infinity
    /\ \A sample \in PriceSamples :
         sample.text = priceText => Get(priceValue) = sample.value

(***************************************************************************)
(* Properties of the tier selection                                        *)
(***************************************************************************)

SurvivorSet == { Survivors[i] : i \in 1..Len(Survivors) }

\* p is a cheapest listing of the set.
IsCheapestOf(p, listings) ==
  p \in listings /\ \A q \in listings : PriceOf(p) <= PriceOf(q)

\* C17: whenever a candidate survives the filter the response has an essential
\* tier: a lowest-priced survivor among those with rating >= 3.5 and
\* reviews >= 10 if there is one, and otherwise a lowest-priced survivor.
C17_EssentialPresent ==
  (pc = "done" /\ Survivors # << >>) =>
    \E p \in SurvivorSet :
      /\ IsInTier(p, "essential")
      /\ IF \E q \in SurvivorSet : MeetsEssentialBar(q)
         THEN IsCheapestOf(p, { q \in SurvivorSet : MeetsEssentialBar(q) })
         ELSE IsCheapestOf(p, SurvivorSet)

\* The cheapest survivor is below the bar and a dearer one meets it: the
\* essential tier holds the dearer one.
C17_Witness ==
  /\ pc = "done"
  /\ \E p \in SurvivorSet, q \in SurvivorSet :
       /\ PriceOf(q) < PriceOf(p)
       /\ ~MeetsEssentialBar(q)
       /\ MeetsEssentialBar(p)
       /\ IsInTier(p, "essential")
       /\ IsCheapestOf(q, SurvivorSet)

\* The luxury pick has been made for the request under way.
LuxuryDecided == pc \in {"premium", "respond", "done"} /\ IsSome(essentialProduct)

UsedBeforeLuxury == AddLink({}, essentialProduct)

\* Priced above 1.2 x the essential listing.
IsSeparated(p) == ~LeTimes1_2(PriceOf(p), PriceOf(Get(essentialProduct)))

\* Unused after the essential pick, meeting the strict luxury bar and the
\* price separation.
MeetsStrictLuxury(p) ==
  /\ ~IsUsed(p, UsedBeforeLuxury)
  /\ MeetsLuxuryBar(p)
  /\ IsSeparated(p)

\* C18: if some unused candidate meets the strict luxury bar (rating >= 4.0 and
\* reviews >= 25) above 1.2 x the essential price, the luxury pick is a
\* candidate meeting that bar and separation, whatever the brands.
C18_StrictBarBeforeFallbacks ==
  (LuxuryDecided /\ \E i \in 1..Len(suitableRawProducts) :
                       MeetsStrictLuxury(suitableRawProducts[i]))
    => (IsSome(luxuryProduct) /\ MeetsStrictLuxury(Get(luxuryProduct)))

\* The unused survivors priced strictly above the essential listing.
DearerThanEssential ==
  { p \in SurvivorSet :
      ~IsUsed(p, UsedBeforeLuxury) /\ PriceOf(p) > PriceOf(Get(essentialProduct)) }

\* Neither the strict bar nor the relaxed one (rating >= 4.0 above 1.2 x the
\* essential price) has a candidate: the last resort decides.
IsLastResort ==
  \A p \in SurvivorSet :
    ~(~IsUsed(p, UsedBeforeLuxury) /\ Rating(p) >= Dec(4, 0) /\ IsSeparated(p))

\* C19: if an unused survivor is priced strictly above the essential listing,
\* the response has a luxury tier, and when the last resort decides it is the
\* most expensive of these survivors, whatever its rating.
C19_LuxuryNeverDropped ==
  (pc = "done" /\ IsSome(essentialProduct) /\ DearerThanEssential # {}) =>
    /\ IsSome(luxuryProduct)
    /\ IsInTier(Get(luxuryProduct), "luxury")
    /\ IsLastResort =>
         /\ Get(luxuryProduct) \in DearerThanEssential
         /\ \A q \in DearerThanEssential : PriceOf(q) <= PriceOf(Get(luxuryProduct))

\* The last resort decided between two survivors at different prices, both
\* rated below 4.0, and the response has the dearer one as luxury.
C19_Witness ==
  /\ pc = "done"
  /\ IsSome(essentialProduct)
  /\ IsLastResort
  /\ \E p \in DearerThanEssential, q \in DearerThanEssential :
       /\ PriceOf(q) < PriceOf(p)
       /\ IsInTier(p, "luxury")

HasTier(tier) == \E i \in 1..Len(ResponseBody) : ResponseBody[i].tier = tier

\* Not the essential or the luxury listing e and l, rated >= 3.8 with >= 15
\* reviews, and priced strictly between the two.
IsPremiumCandidate(p, e, l) ==
  /\ taggedLink[p.product_url] \notin {taggedLink[e.product_url], taggedLink[l.product_url]}
  /\ MeetsPremiumBar(p)
  /\ PriceOf(e) < PriceOf(p)
  /\ PriceOf(p) < PriceOf(l)

\* The rating, plus 0.5 for the brand of the essential listing e.
ScoreOf(p, e) ==
  Rating(p) + (IF IsSome(BrandOf(e)) /\ BrandOf(p) = BrandOf(e) THEN Scale \div 2 ELSE 0)

\* C20: whenever the response has the premium tier together with essential and
\* luxury, the premium listing is an unused candidate with rating >= 3.8 and
\* reviews >= 15 priced strictly between the essential and the luxury listing,
\* and no such candidate has a higher score.
C20_PremiumBetweenWithMaxScore ==
  (pc = "done" /\ \A tier \in Tiers : HasTier(tier))
    => \E p \in SurvivorSet, e \in SurvivorSet, l \in SurvivorSet :
         /\ IsInTier(e, "essential")
         /\ IsInTier(l, "luxury")
         /\ IsInTier(p, "premium")
         /\ IsPremiumCandidate(p, e, l)
         /\ \A q \in SurvivorSet : IsPremiumCandidate(q, e, l) => ScoreOf(q, e) <= ScoreOf(p, e)

\* The same for the premium listing the selection itself chose.
SelectedPremiumBetweenWithMaxScore ==
  (/\ pc = "done"
   /\ IsSome(essentialProduct)
   /\ IsSome(luxuryProduct)
   /\ IsSome(premiumProduct))
    => /\ IsPremiumCandidate(Get(premiumProduct), Get(essentialProduct), Get(luxuryProduct))
       /\ \A q \in SurvivorSet :
            IsPremiumCandidate(q, Get(essentialProduct), Get(luxuryProduct))
              => ScoreOf(q, Get(essentialProduct)) <= ScoreOf(Get(premiumProduct), Get(essentialProduct))

MeetsNoBar(p) ==
  ~MeetsEssentialBar(p) /\ ~MeetsPremiumBar(p) /\ ~MeetsLuxuryBar(p)

\* The essential tier fell to the cheapest survivor because none meets its bar.
IsLastResortEssential(p) ==
  /\ IsCheapestOf(p, SurvivorSet)
  /\ \A q \in SurvivorSet : ~MeetsEssentialBar(q)

\* The luxury tier fell to the most expensive remaining survivor.
IsLastResortLuxury(p) ==
  /\ IsSome(essentialProduct)
  /\ p \in DearerThanEssential
  /\ \A q \in DearerThanEssential : PriceOf(q) <= PriceOf(p)

\* C21: a survivor that meets none of the essential, premium and luxury bars
\* is never the premium tier, and is the essential or the luxury tier only by
\* the last resorts (cheapest of all for essential, most expensive remaining
\* for luxury); no later step places it in a tier.
C21_BelowEveryBarOnlyByLastResort ==
  pc = "done" =>
    \A p \in SurvivorSet :
      MeetsNoBar(p) =>
        /\ ~IsInTier(p, "premium")
        /\ IsInTier(p, "essential") => IsLastResortEssential(p)
        /\ IsInTier(p, "luxury") => IsLastResortLuxury(p)

\* The listing the selection chose for the tier, if any.
SelectedFor(tier) ==
  IF tier = "essential" THEN essentialProduct
  ELSE IF tier = "premium" THEN premiumProduct
  ELSE luxuryProduct

MeetsBarOf(p, tier) ==
  IF tier = "essential" THEN MeetsEssentialBar(p)
  ELSE IF tier = "premium" THEN MeetsPremiumBar(p)
  ELSE MeetsLuxuryBar(p)

\* In tier t the price of p keeps the order against the tiers the selection
\* filled: not below a lower one, not above a higher one.
KeepsPriceOrder(p, t) ==
  \A u \in Tiers :
    IsSome(SelectedFor(u)) =>
      /\ tierRank[u] < tierRank[t] => PriceOf(Get(SelectedFor(u))) <= PriceOf(p)
      /\ tierRank[u] > tierRank[t] => PriceOf(p) <= PriceOf(Get(SelectedFor(u)))

\* Not chosen by the selection, meeting the bar of tier t, and keeping the
\* price order there.
IsBackfillCandidate(p, t) ==
  /\ \A u \in Tiers : IsSome(SelectedFor(u)) =>
        taggedLink[p.product_url] # taggedLink[Get(SelectedFor(u)).product_url]
  /\ MeetsBarOf(p, t)
  /\ KeepsPriceOrder(p, t)

\* C22: when the selection left a tier unfilled (with two tiers filled as well
\* as with one) and an unused qualifying candidate keeps the price order
\* against the filled tiers, the response has that tier; and a tier the
\* backfill filled never holds a listing priced below a lower filled tier or
\* above a higher filled tier.
C22_BackfillKeepsPriceOrder ==
  pc = "done" =>
    \A t \in Tiers :
      ~IsSome(SelectedFor(t)) =>
        /\ (\E p \in SurvivorSet : IsBackfillCandidate(p, t)) => HasTier(t)
        /\ \A p \in SurvivorSet : IsInTier(p, t) => KeepsPriceOrder(p, t)

(***************************************************************************)
(* The key of the rate limiter                                             *)
(***************************************************************************)

\* A request with these headers passes the limiter in this step, in handler h.
PassesLimiter(h, headers) == GateAdmit(h, headers) \/ GateReject(h, headers)

\* C23: the limiter is keyed by the x-forwarded-for header, else x-real-ip,
\* else 'unknown_ip'; a request is refused exactly when 30 requests of its own
\* key were admitted in the last 60000 ms, and it leaves the logs of every
\* other key as they were.
C23_KeyedByClient ==
  [][\A h \in Handlers, headers \in RequestHeaders :
       PassesLimiter(h, headers) =>
         /\ headers.forwardedFor # "" => handlers'[h].clientIp = headers.forwardedFor
         /\ headers.forwardedFor = "" /\ headers.realIp # ""
              => handlers'[h].clientIp = headers.realIp
         /\ headers.forwardedFor = "" /\ headers.realIp = ""
              => handlers'[h].clientIp = "unknown_ip"
         /\ handlers'[h].limited
              <=> AdmittedIn(handlers'[h].clientIp, now) >= MAX_REQUESTS_PER_WINDOW
         /\ \A other \in Clients \ {handlers'[h].clientIp} :
              /\ requestLog'[other] = requestLog[other]
              /\ admitted'[other] = admitted[other]]_vars

\* A request of one client was refused, its client having 30 in the window,
\* while a request of another client, with fewer, is let in.
C23_Witness ==
  \E h \in Handlers, other \in Handlers :
    /\ handlers[h].limited
    /\ handlers[other].pc = "admitted"
    /\ handlers[other].clientIp # handlers[h].clientIp
    /\ AdmittedIn(handlers[h].clientIp, now) = MAX_REQUESTS_PER_WINDOW
    /\ AdmittedIn(handlers[other].clientIp, now) < MAX_REQUESTS_PER_WINDOW

(***************************************************************************)
(* Refused requests and the log                                            *)
(***************************************************************************)

\* C26: a refused request leaves requestLog as it was, and whatever was
\* refused before, the limiter lets a client in exactly when fewer than 30 of
\* its requests were admitted in the last 60000 ms.
C26_RefusedLeavesLog ==
  /\ [][\A h \in Handlers :
          ~handlers[h].limited /\ handlers'[h].limited => requestLog' = requestLog]_vars
  /\ [](\A clientIp \in Clients :
          ~isRateLimited(requestLog, clientIp, now)
            <=> AdmittedIn(clientIp, now) < MAX_REQUESTS_PER_WINDOW)

\* A client was refused with 30 in its window and, the clock having moved
\* on, its next request has just been let in.
C26_Witness ==
  \E h \in Handlers, other \in Handlers :
    /\ handlers[h].limited
    /\ handlers[other].pc = "admitted"
    /\ handlers[other].clientIp = handlers[h].clientIp
    /\ admitted[handlers[h].clientIp][Len(admitted[handlers[h].clientIp])] = now
    /\ AdmittedIn(handlers[h].clientIp, now) < MAX_REQUESTS_PER_WINDOW

(***************************************************************************)
(* Properties of the acquisition by pages                                  *)
(***************************************************************************)

\* fetchAmazonApi threw for a page the handler asked for.
AcquisitionThrew ==
  \E i \in 1..Len(requested) : fetchAmazonApi(service, requested[i]).threw

\* C25: with RAPIDAPI_KEY missing from the environment, the handler answers
\* with status 500, not with status 200 and an empty list.
C25_MissingKeyIsStatus500 ==
  pc = "done" /\ service.rapidApiKey = "" /\ requested # << >>
    => Get(response).status = 500

\* C27: page 2 is asked for only after page 1 has returned at least one and
\* fewer than 15 records; and when a call of fetchAmazonApi throws, for page 2
\* after a good page 1 as well, the handler answers with status 200 and an
\* empty list, no tier of the page 1 candidates in it.
C27_Page2AndThrows ==
  /\ \A i \in 1..Len(requested) :
       requested[i] = 2 =>
         /\ requested = << 1, 2 >>
         /\ ~fetchAmazonApi(service, 1).threw
         /\ Len(page1Products) >= 1
         /\ Len(page1Products) < Page1Enough
  /\ AcquisitionThrew =>
       /\ pc = "done"
       /\ response = JsonResponse(200, << >>)

\* Page 1 brought candidates, page 2 threw, and the answer has been made.
C27_Witness ==
  /\ pc = "done"
  /\ requested = << 1, 2 >>
  /\ page1Products # << >>
  /\ candidateProducts = page1Products
  /\ fetchAmazonApi(service, 2).threw
  /\ IsSome(response)

(***************************************************************************)
(* Properties of the search form                                           *)
(***************************************************************************)

\* C24: searchAmazonProducts resolves or rejects only when every request of a
\* category has settled, setProducts gets a kit only then, and the kit that is
\* rendered holds the group of every category that has one, never those of a
\* part of the categories while others are pending.
C24_KitAfterEverySettled ==
  /\ [](kitPc \in {"done", "returned"} => AllSettled(resolvedGroups))
  /\ [](products # << >> =>
          /\ kitPc = "returned"
          /\ AllSettled(resolvedGroups)
          /\ products = NonNullGroups(resolvedGroups))
  /\ [][products' # products /\ products' # << >>
          => kitPc = "done" /\ AllSettled(resolvedGroups)]_vars

\* The kit of two categories is rendered, one of them without a group.
C24_Witness ==
  /\ Page = "results"
  /\ Len(resolvedGroups) = 2
  /\ Len(products) = 1
  /\ \E i \in 1..2 : resolvedGroups[i].failed

(***************************************************************************)
(* Properties of the results page                                          *)
(***************************************************************************)

\* C28: while ResultsPage is mounted its effects call searchLearningResources
\* at most once, further calls coming from Try Again only, and two calls are
\* never under way at once.
C28_OneFetchPerVisit ==
  /\ autoFetches <= 1
  /\ Cardinality(resourceFetches) <= 1

\* C29: the learning resources and the error that ResultsPage shows were
\* fetched for the searchTerm it shows.
C29_ResourcesOfCurrentTerm ==
  Page = "results" =>
    /\ learningResources \in {<< >>, ResourcesFor(searchTerm)}
    /\ learningResourcesError \in {"", ResourcesErrorFor(searchTerm)}

\* C30: a submit less than 2000 ms after the last accepted one starts no
\* search and changes neither isLoading nor products.
C30_CooldownStartsNoSearch ==
  [][IsSome(lastAccepted) /\ now - Get(lastAccepted) < COOLDOWN_PERIOD
       => /\ submits' = submits
          /\ searching' # searching => searching' = None]_vars

\* Every accepted submit ends with isLoading false.
LoadingEnds == isLoading ~> ~isLoading

\* An accepted submit sets isLoading and clears error and products before the
\* search settles, and products are non-empty only from a resolved search of
\* at least one group.
SubmitClearsThenSets ==
  /\ [][submits' # submits => isLoading' /\ error' = "" /\ products' = << >>]_vars
  /\ [][products' # products /\ products' # << >>
          => Get(kitResult).ok /\ products' = Get(kitResult).groups /\ ~isLoading']_vars

=============================================================================
